---------------------------- MODULE Spec2Model ----------------------------
(***************************************************************************)
(* A model of the goap-oriented planning library: the GOAPPlanner          *)
(* (best-first search over world states), its PriorityQueue, and the      *)
(* Agent that executes a found plan with rollback.                         *)
(*                                                                         *)
(* World states are JavaScript objects: ordered lists of (key, value)      *)
(* entries.  Values are booleans, numbers, strings, undefined or NaN.      *)
(* Function-valued conditions, effects and costs are tagged expressions    *)
(* evaluated against a state.                                              *)
(***************************************************************************)
EXTENDS Integers, Sequences, FiniteSets, TLC

(***************************************************************************)
(* JavaScript values.  Every value is a record of the same shape, so that  *)
(* values of different types can be compared.                              *)
(***************************************************************************)
Num(n) == [t |-> "number", n |-> n, b |-> FALSE, s |-> ""]

Bool(b) == [t |-> "boolean", n |-> 0, b |-> b, s |-> ""]

Str(s) == [t |-> "string", n |-> 0, b |-> FALSE, s |-> s]

Undefined == [t |-> "undefined", n |-> 0, b |-> FALSE, s |-> ""]

NaN == [t |-> "NaN", n |-> 0, b |-> FALSE, s |-> ""]

Null == [t |-> "null", n |-> 0, b |-> FALSE, s |-> ""]

\* typeof v === 'number' (NaN is a number)
IsNumberType(v) == v.t \in {"number", "NaN"}

\* ToBoolean(v), as in `v || 0` and `c ? a : b`
Truthy(v) ==
  CASE v.t = "boolean" -> v.b
    [] v.t = "number" -> v.n # 0
    [] v.t = "string" -> v.s # ""
    [] OTHER -> FALSE

\* ToNumber(v); strings are outside the modelled inputs of arithmetic
ToNumber(v) ==
  CASE v.t = "number" -> v
    [] v.t = "boolean" -> Num(IF v.b THEN 1 ELSE 0)
    [] v.t = "null" -> Num(0)
    [] OTHER -> NaN

\* a + b on numbers
JsAdd(a, b) ==
  LET x == ToNumber(a)
      y == ToNumber(b)
  IN IF x.t = "number" /\ y.t = "number" THEN Num(x.n + y.n) ELSE NaN

\* a * b
JsMul(a, b) ==
  LET x == ToNumber(a)
      y == ToNumber(b)
  IN IF x.t = "number" /\ y.t = "number" THEN Num(x.n * y.n) ELSE NaN

\* a < b (false as soon as one side is NaN)
JsLess(a, b) ==
  LET x == ToNumber(a)
      y == ToNumber(b)
  IN x.t = "number" /\ y.t = "number" /\ x.n < y.n

\* a <= b
JsLessEq(a, b) ==
  LET x == ToNumber(a)
      y == ToNumber(b)
  IN x.t = "number" /\ y.t = "number" /\ x.n <= y.n

\* a === b (NaN is not equal to itself)
StrictEquals(a, b) == a.t # "NaN" /\ a = b

(***************************************************************************)
(* World states: objects as ordered entry lists (insertion order).         *)
(***************************************************************************)
Entry(k, v) == [k |-> k, v |-> v]

HasKey(state, k) == \E i \in 1..Len(state) : state[i].k = k

\* state[k]
Get(state, k) ==
  IF HasKey(state, k)
  THEN state[CHOOSE i \in 1..Len(state) : state[i].k = k].v
  ELSE Undefined

\* state[k] = v : an existing key keeps its place, a new key goes last
Put(state, k, v) ==
  IF HasKey(state, k)
  THEN [i \in 1..Len(state) |-> IF state[i].k = k THEN Entry(k, v) ELSE state[i]]
  ELSE Append(state, Entry(k, v))

\* delete state[k]
Delete(state, k) == SelectSeq(state, LAMBDA e : e.k # k)

\* the keys of an object
Keys(state) == {state[i].k : i \in 1..Len(state)}

\* two objects with the same keys and the same value for every key
SameContent(s1, s2) ==
  /\ Keys(s1) = Keys(s2)
  /\ \A k \in Keys(s1) : Get(s1, k) = Get(s2, k)


(***************************************************************************)
(* Literal-or-computed values of conditions and effects                    *)
(*   value: any   (a literal, or a function of the state)                  *)
(* and the costs of actions                                                *)
(*   cost: number | ((state) => number).                                   *)
(* A computed value is one of the function shapes the repository's tests   *)
(* and README use.                                                         *)
(***************************************************************************)
Expr(kind, key, key2, d, a, b, v) ==
  [kind |-> kind, key |-> key, key2 |-> key2, d |-> d, a |-> a, b |-> b, v |-> v]

\* a literal
Lit(v) == Expr("lit", "", "", 0, 0, 0, v)

\* (state) => state.key + d
Plus(key, d) == Expr("plus", key, "", d, 0, 0, Undefined)

\* (state) => (state.key || 0) + d
PlusOr0(key, d) == Expr("plusOr0", key, "", d, 0, 0, Undefined)

\* (state) => !state.key
Not(key) == Expr("not", key, "", 0, 0, 0, Undefined)

\* (state) => state.key * state.key2
Times(key, key2) == Expr("times", key, key2, 0, 0, 0, Undefined)

\* (state) => state.key * d
Scale(key, d) == Expr("scale", key, "", d, 0, 0, Undefined)

\* (state) => state.key > d ? a : b
IfGreater(key, d, a, b) == Expr("ifGreater", key, "", d, a, b, Undefined)

\* (state) => state.key ? a : b
IfTruthy(key, a, b) == Expr("ifTruthy", key, "", 0, a, b, Undefined)

\* typeof value === 'function'
IsFunction(e) == e.kind # "lit"

\* value(state) for a function, the literal otherwise
Eval(e, state) ==
  CASE e.kind = "lit" -> e.v
    [] e.kind = "plus" -> JsAdd(Get(state, e.key), Num(e.d))
    [] e.kind = "plusOr0" ->
         JsAdd(IF Truthy(Get(state, e.key)) THEN Get(state, e.key) ELSE Num(0), Num(e.d))
    [] e.kind = "not" -> Bool(~Truthy(Get(state, e.key)))
    [] e.kind = "times" -> JsMul(Get(state, e.key), Get(state, e.key2))
    [] e.kind = "scale" -> JsMul(Get(state, e.key), Num(e.d))
    [] e.kind = "ifGreater" ->
         IF JsLess(Num(e.d), Get(state, e.key)) THEN Num(e.a) ELSE Num(e.b)
    [] e.kind = "ifTruthy" ->
         IF Truthy(Get(state, e.key)) THEN Num(e.a) ELSE Num(e.b)

\* ActionPrecondition { key, value, operator? }; operator "" is an absent one
Cond(key, operator, value) == [key |-> key, operator |-> operator, value |-> value]

\* ActionEffect { key, value }
Effect(key, value) == [key |-> key, value |-> value]

\* Action { name, cost, preconditions, effects, execute? }
Action(name, cost, preconditions, effects, execute) ==
  [name |-> name, cost |-> cost, preconditions |-> preconditions,
   effects |-> effects, execute |-> execute]

\* Goal { name, conditions }
Goal(name, conditions) == [name |-> name, conditions |-> conditions]

(***************************************************************************)
(* The program state.                                                      *)
(*   GOAPPlanner: actions, resourceKeys (fields); initialState, goal       *)
(*   (findPlan's arguments); queue, visited, iterations, bestPlan,         *)
(*   bestCost (findPlan's locals); pc, result (where findPlan is, what it  *)
(*   returned).                                                            *)
(*   Agent: worldState, currentPlan (fields); execInitialState, idx        *)
(*   (executePlan's locals); apc, agentResult, execLog (where executePlan  *)
(*   is, what it resolved to, the execute operations it started/ended);    *)
(*   runs (the executePlan calls made so far); stateAtCall (the world      *)
(*   state when executePlan was last invoked).                             *)
(*   scenario: the domain the caller's actions, states and goals are       *)
(*   drawn from.                                                           *)
(*   kept: a findPlan call and the plan it returned, as a caller keeps     *)
(*   them to compare with a later call.                                    *)
(*   enqueued, dequeued: the items given to enqueue and the values         *)
(*   returned by dequeue on a PriorityQueue of the caller's own.           *)
(*   calls: the executePlan invocations a caller has started on one Agent  *)
(*   without awaiting the one before: for each, where it is (pos), the     *)
(*   array its for-of loop iterates (plan, idx), its `initialState` copy,  *)
(*   and what the caller can tell of it (the invocations that were         *)
(*   suspended when it started, the world state its last assignment left). *)
(***************************************************************************)
VARIABLES scenario, actions, resourceKeys, pc, initialState, goal, queue,
          visited, iterations, bestPlan, bestCost, result,
          worldState, currentPlan, apc, execInitialState, idx, agentResult,
          execLog, runs, stateAtCall, kept, enqueued, dequeued, calls

vars == <<scenario, actions, resourceKeys, pc, initialState, goal, queue,
          visited, iterations, bestPlan, bestCost, result,
          worldState, currentPlan, apc, execInitialState, idx, agentResult,
          execLog, runs, stateAtCall, kept, enqueued, dequeued, calls>>

\* what the caller holds
callerVars == <<scenario, kept, enqueued, dequeued, calls>>

plannerFields == <<actions, resourceKeys>>

searchVars == <<pc, initialState, goal, queue, visited, iterations, bestPlan,
                bestCost, result>>

agentVars == <<worldState, currentPlan, apc, execInitialState, idx,
               agentResult, execLog, runs, stateAtCall>>

(***************************************************************************)
(* The actions a caller may register (object identities 1..n), taken from  *)
(* the README and the test suites.                                         *)
(***************************************************************************)
ActionPool ==
  << \* 1, 2: README Quick Start
     Action("CollectWood", Lit(Num(1)), <<>>,
            <<Effect("wood", PlusOr0("wood", 5))>>, FALSE),
     Action("BuildHouse", Lit(Num(2)),
            <<Cond("wood", "greaterThanOrEqual", Lit(Num(10)))>>,
            <<Effect("wood", Plus("wood", -10)), Effect("house", Lit(Bool(TRUE)))>>,
            FALSE),
     \* 3, 4: Core.test 'should handle sequential dependent actions'
     Action("CollectResources", Lit(Num(1)), <<>>,
            <<Effect("resources", Lit(Num(10)))>>, FALSE),
     Action("ProcessResources", Lit(Num(1)),
            <<Cond("resources", "greaterThanOrEqual", Lit(Num(5)))>>,
            <<Effect("resources", Plus("resources", -5)),
              Effect("processedResources", PlusOr0("processedResources", 1))>>,
            FALSE),
     \* 5, 6: Planner.test 'should handle unreachable states with cycles'
     Action("ToggleA", Lit(Num(1)),
            <<Cond("stateB", "", Lit(Bool(TRUE)))>>,
            <<Effect("stateA", Not("stateA")), Effect("stateB", Lit(Bool(FALSE)))>>,
            FALSE),
     Action("ToggleB", Lit(Num(1)),
            <<Cond("stateA", "", Lit(Bool(TRUE)))>>,
            <<Effect("stateB", Not("stateB")), Effect("stateA", Lit(Bool(FALSE)))>>,
            FALSE),
     \* 7, 8: Planner.test 'should find multi-step plan'
     Action("GetAxe", Lit(Num(1)), <<>>,
            <<Effect("hasAxe", Lit(Bool(TRUE)))>>, FALSE),
     Action("GetWood", Lit(Num(1)),
            <<Cond("hasAxe", "", Lit(Bool(TRUE)))>>,
            <<Effect("hasWood", Lit(Bool(TRUE))), Effect("hasAxe", Lit(Bool(TRUE)))>>,
            FALSE),
     \* 9, 10: Core.test 'should handle multiple valid paths'
     Action("PathA", Lit(Num(2)), <<>>,
            <<Effect("goal", Lit(Bool(TRUE)))>>, FALSE),
     Action("PathB", Lit(Num(1)), <<>>,
            <<Effect("goal", Lit(Bool(TRUE)))>>, FALSE),
     \* 11: Planner.test 'should handle state transitions with operators';
     \* 12: 'should handle multiple goals with same key different operators'
     Action("IncrementValue", Lit(Num(1)), <<>>,
            <<Effect("value", PlusOr0("value", 1))>>, FALSE),
     Action("RangeAction", Lit(Num(5)), <<>>,
            <<Effect("value", Lit(Num(5)))>>, FALSE),
     \* 13: EdgeCases.test 'should handle dynamic cost functions';
     \* 14: Planner.test 'should handle complex conditions' (Rest)
     Action("DynamicCostAction", IfGreater("energy", 50, 1, 3), <<>>,
            <<Effect("goal", Lit(Bool(TRUE)))>>, FALSE),
     Action("Rest", Lit(Num(1)),
            <<Cond("energy", "lessThan", Lit(Num(50)))>>,
            <<Effect("energy", Lit(Num(100)))>>, FALSE),
     \* 16: EdgeCases.test 'should handle state rollbacks on failed actions';
     \* 15, 17: a gathering action with an execute operation and a finishing
     \* action without one, so that plans of several actions are executed
     Action("GatherResource", Lit(Num(1)), <<>>,
            <<Effect("resource", PlusOr0("resource", 5))>>, TRUE),
     Action("Craft", Lit(Num(1)),
            <<Cond("resource", "greaterThan", Lit(Num(5)))>>,
            <<Effect("resource", Plus("resource", -5)),
              Effect("crafted", Lit(Bool(TRUE)))>>, TRUE),
     Action("Polish", Lit(Num(1)),
            <<Cond("crafted", "", Lit(Bool(TRUE)))>>,
            <<Effect("polished", Lit(Bool(TRUE)))>>, FALSE),
     \* 18..23: README 'Complex Planning'
     Action("MineOre", Lit(Num(2)),
            <<Cond("hasPickaxe", "", Lit(Bool(TRUE)))>>,
            <<Effect("ore", PlusOr0("ore", 3))>>, FALSE),
     Action("CraftPickaxe", Lit(Num(1)),
            <<Cond("wood", "greaterThanOrEqual", Lit(Num(2))),
              Cond("stone", "greaterThanOrEqual", Lit(Num(3)))>>,
            <<Effect("wood", Plus("wood", -2)), Effect("stone", Plus("stone", -3)),
              Effect("hasPickaxe", Lit(Bool(TRUE)))>>, FALSE),
     Action("GatherWood", Lit(Num(1)), <<>>,
            <<Effect("wood", PlusOr0("wood", 2))>>, FALSE),
     Action("GatherStone", Lit(Num(1)), <<>>,
            <<Effect("stone", PlusOr0("stone", 2))>>, FALSE),
     Action("SmeltIron", Lit(Num(3)),
            <<Cond("ore", "greaterThanOrEqual", Lit(Num(3))),
              Cond("hasFurnace", "", Lit(Bool(TRUE)))>>,
            <<Effect("ore", Plus("ore", -3)), Effect("iron", PlusOr0("iron", 1))>>,
            FALSE),
     Action("BuildFurnace", Lit(Num(2)),
            <<Cond("stone", "greaterThanOrEqual", Lit(Num(8)))>>,
            <<Effect("stone", Plus("stone", -8)),
              Effect("hasFurnace", Lit(Bool(TRUE)))>>, FALSE),
     \* 24: Planner.test 'should handle multiple precondition operators';
     \* 25: the same action at a higher cost
     Action("RangeAction", Lit(Num(1)),
            <<Cond("value", "greaterThan", Lit(Num(5))),
              Cond("value", "lessThan", Lit(Num(15)))>>,
            <<Effect("inRange", Lit(Bool(TRUE)))>>, FALSE),
     Action("RangeAction", Lit(Num(1000)),
            <<Cond("value", "greaterThan", Lit(Num(5))),
              Cond("value", "lessThan", Lit(Num(15)))>>,
            <<Effect("inRange", Lit(Bool(TRUE)))>>, FALSE),
     \* 26..28: a goal action whose cost function reads a key that its own
     \* effects write (the cost function of 13 with another constant), and two
     \* actions that make it eligible, one of them writing that key as well
     Action("Prepare", Lit(Num(1)), <<>>,
            <<Effect("started", Lit(Bool(TRUE)))>>, FALSE),
     Action("Recharge", Lit(Num(2)), <<>>,
            <<Effect("started", Lit(Bool(TRUE))),
              Effect("energy", Lit(Num(100)))>>, FALSE),
     Action("DynamicCostAction", IfGreater("energy", 50, 1, 5),
            <<Cond("started", "", Lit(Bool(TRUE)))>>,
            <<Effect("energy", Lit(Num(100))),
              Effect("goal", Lit(Bool(TRUE)))>>, FALSE),
     \* 29: a third path beside 9 and 10, one that costs nothing
     Action("PathC", Lit(Num(0)), <<>>,
            <<Effect("goal", Lit(Bool(TRUE)))>>, FALSE),
     \* 30, 31: Core.test 'should handle alternative paths with different
     \* costs'; 32: its CheapPath at the literal cost that the test expects
     \* of it (10 * 0.5); 33: CollectResources (3) at a higher cost
     Action("AddResources", Lit(Num(1)), <<>>,
            <<Effect("resources", PlusOr0("resources", 5))>>, FALSE),
     Action("ExpensivePath", Scale("resources", 3),
            <<Cond("resources", "greaterThan", Lit(Num(0)))>>,
            <<Effect("goal", Lit(Bool(TRUE)))>>, FALSE),
     Action("CheapPath", Lit(Num(5)),
            <<Cond("resources", "greaterThan", Lit(Num(9)))>>,
            <<Effect("goal", Lit(Bool(TRUE)))>>, FALSE),
     Action("CollectResources", Lit(Num(2)), <<>>,
            <<Effect("resources", Lit(Num(10)))>>, FALSE),
     \* 34: Planner.test 'should handle effects that modify multiple
     \* dependent states'
     Action("DependentEffects", Lit(Num(1)), <<>>,
            <<Effect("baseValue", Lit(Num(10))),
              Effect("multiplier", Lit(Num(2))),
              Effect("result", Times("baseValue", "multiplier"))>>, FALSE),
     \* 35: Planner.test 'should handle undefined state values'; 36, 37: an
     \* action that confirms definedValue and one that clears undefinedValue
     Action("HandleUndefined", Lit(Num(1)),
            <<Cond("definedValue", "", Lit(Bool(TRUE))),
              Cond("undefinedValue", "equals", Lit(Undefined))>>,
            <<Effect("goal", Lit(Bool(TRUE)))>>, FALSE),
     Action("Recheck", Lit(Num(1)), <<>>,
            <<Effect("definedValue", Lit(Bool(TRUE)))>>, FALSE),
     Action("ClearValue", Lit(Num(12)), <<>>,
            <<Effect("undefinedValue", Lit(Undefined))>>, FALSE)
  >>

\* the caller's world states, goals and resource keys, per domain
Domain(pool, inits, goals, resources) ==
  [pool |-> pool, inits |-> inits, goals |-> goals, resources |-> resources]

Domains ==
  << Domain({1, 2},
            {<<Entry("wood", Num(0)), Entry("house", Bool(FALSE))>>},
            {Goal("BuildHouseGoal", <<Cond("house", "", Lit(Bool(TRUE)))>>)},
            {"wood"}),
     Domain({3, 4},
            {<<Entry("resources", Num(0)), Entry("processedResources", Num(0))>>},
            {Goal("ProcessingGoal", <<Cond("processedResources", "", Lit(Num(2)))>>)},
            {"resources"}),
     Domain({5, 6},
            {<<Entry("stateA", Bool(FALSE)), Entry("stateB", Bool(FALSE))>>,
             <<Entry("stateA", Bool(TRUE)), Entry("stateB", Bool(FALSE))>>},
            {Goal("UnreachableGoal", <<Cond("stateA", "", Lit(Bool(TRUE))),
                                      Cond("stateB", "", Lit(Bool(TRUE)))>>)},
            {}),
     Domain({7, 8},
            {<<Entry("hasAxe", Bool(FALSE)), Entry("hasWood", Bool(FALSE))>>},
            {Goal("GetWoodGoal", <<Cond("hasWood", "", Lit(Bool(TRUE))),
                                  Cond("hasAxe", "", Lit(Bool(TRUE)))>>)},
            {}),
     Domain({9, 10, 29},
            {<<Entry("goal", Bool(FALSE))>>},
            {Goal("MultiPathGoal", <<Cond("goal", "", Lit(Bool(TRUE)))>>)},
            {}),
     Domain({11, 12},
            {<<Entry("value", Num(0))>>},
            {Goal("ValueGoal", <<Cond("value", "greaterThanOrEqual", Lit(Num(3)))>>),
             Goal("ImpossibleGoal", <<Cond("value", "greaterThan", Lit(Num(2000)))>>)},
            {"value"}),
     Domain({13, 14},
            {<<Entry("energy", Num(20))>>, <<Entry("energy", Num(100))>>},
            {Goal("DynamicCostGoal", <<Cond("goal", "", Lit(Bool(TRUE)))>>)},
            {}),
     Domain({15, 16, 17},
            {<<Entry("resource", Num(10)), Entry("crafted", Bool(FALSE))>>,
             <<Entry("resource", Num(0)), Entry("crafted", Bool(FALSE))>>},
            {Goal("CraftGoal", <<Cond("crafted", "", Lit(Bool(TRUE)))>>),
             Goal("PolishGoal", <<Cond("polished", "", Lit(Bool(TRUE)))>>)},
            {}),
     Domain({18, 19, 20, 21, 22, 23},
            {<<Entry("wood", Num(0)), Entry("stone", Num(0)), Entry("ore", Num(0)),
               Entry("iron", Num(0)), Entry("hasPickaxe", Bool(FALSE)),
               Entry("hasFurnace", Bool(FALSE))>>,
             <<Entry("wood", Num(0)), Entry("stone", Num(0)), Entry("ore", Num(0)),
               Entry("iron", Num(0)), Entry("hasPickaxe", Bool(TRUE)),
               Entry("hasFurnace", Bool(TRUE))>>},
            {Goal("CreateIronGoal", <<Cond("iron", "", Lit(Num(1)))>>)},
            {}),
     Domain({11, 24, 25},
            {<<Entry("value", Num(10))>>},
            {Goal("RangeGoal", <<Cond("inRange", "", Lit(Bool(TRUE)))>>)},
            {}),
     Domain({26, 27, 28},
            {<<Entry("energy", Num(20)), Entry("started", Bool(FALSE))>>},
            {Goal("DynamicCostGoal", <<Cond("goal", "", Lit(Bool(TRUE)))>>)},
            {}),
     Domain({30, 31, 32},
            {<<Entry("resources", Num(0))>>},
            {Goal("EfficientPathGoal", <<Cond("goal", "", Lit(Bool(TRUE)))>>)},
            {}),
     Domain({30, 32, 33},
            {<<Entry("resources", Num(0))>>},
            {Goal("EfficientPathGoal", <<Cond("goal", "", Lit(Bool(TRUE)))>>)},
            {}),
     Domain({34},
            {<<Entry("baseValue", Num(0)), Entry("multiplier", Num(1)),
               Entry("result", Num(0))>>},
            {Goal("DependentEffectsGoal", <<Cond("result", "", Lit(Num(20)))>>)},
            {}),
     Domain({35, 36, 37},
            {<<Entry("definedValue", Bool(TRUE))>>,
             <<Entry("definedValue", Bool(TRUE)), Entry("undefinedValue", NaN)>>},
            {Goal("UndefinedGoal", <<Cond("goal", "", Lit(Bool(TRUE)))>>)},
            {})
  >>

(***************************************************************************)
(* GOAPPlanner: effects, preconditions, costs.                             *)
(***************************************************************************)
\* `${key}_consumed`
ConsumedKey(key) == key \o "_consumed"

\* key.endsWith('_consumed')
EndsWithConsumed(key) ==
  Len(key) >= Len("_consumed")
  /\ SubSeq(key, Len(key) - Len("_consumed") + 1, Len(key)) = "_consumed"

\* ApplyEffect tracking every key, marked as a resource or not
ApplyEffectTrackingAll(newState, effect) ==
  LET prevValue == Get(newState, effect.key)
      value == Eval(effect.value, newState)
      tracked ==
        IF IsNumberType(value) /\ IsNumberType(prevValue)
        THEN IF JsLess(value, prevValue)
             THEN Put(newState, ConsumedKey(effect.key), Bool(TRUE))
             ELSE Delete(newState, ConsumedKey(effect.key))
        ELSE newState
  IN Put(tracked, effect.key, value)

\* one turn of the loop of applyEffects
ApplyEffect(newState, effect) ==
  LET prevValue == Get(newState, effect.key)
      value == Eval(effect.value, newState)
      tracked ==
        IF effect.key \in resourceKeys
           /\ IsNumberType(value) /\ IsNumberType(prevValue)
        THEN IF JsLess(value, prevValue)
             THEN Put(newState, ConsumedKey(effect.key), Bool(TRUE))
             ELSE Delete(newState, ConsumedKey(effect.key))
        ELSE newState
  IN Put(tracked, effect.key, value)

RECURSIVE ApplyEffectsFrom(_, _, _)
ApplyEffectsFrom(newState, effects, i) ==
  IF i > Len(effects)
  THEN newState
  ELSE ApplyEffectsFrom(ApplyEffect(newState, effects[i]), effects, i + 1)

\* ApplyEffects going through the effects from the last to the first
ApplyEffectsBackwards(state, effects) ==
  ApplyEffectsFrom(state,
                   [i \in 1..Len(effects) |-> effects[Len(effects) + 1 - i]], 1)

\* applyEffects(state, effects): the new state it returns
ApplyEffects(state, effects) == ApplyEffectsFrom(state, effects, 1)

\* ApplyEffectsArgument had applyEffects written into its argument
ApplyEffectsInPlace(state, effects) == ApplyEffects(state, effects)

\* applyEffects(state, effects): its argument object after the call
\* (`const newState = { ...state }` works on a copy)
ApplyEffectsArgument(state, effects) == state

\* CheckPrecondition with greaterThanOrEqual read as greaterThan
CheckPreconditionStrict(state, condition) ==
  LET stateValue == Get(state, condition.key)
      conditionValue == Eval(condition.value, state)
  IN CASE condition.operator = "greaterThan" -> JsLess(conditionValue, stateValue)
       [] condition.operator = "lessThan" -> JsLess(stateValue, conditionValue)
       [] condition.operator = "greaterThanOrEqual" -> JsLess(conditionValue, stateValue)
       [] condition.operator = "lessThanOrEqual" -> JsLessEq(stateValue, conditionValue)
       [] condition.operator = "notEquals" -> ~StrictEquals(stateValue, conditionValue)
       [] OTHER -> StrictEquals(stateValue, conditionValue)

\* checkPrecondition(state, condition)
CheckPrecondition(state, condition) ==
  LET stateValue == Get(state, condition.key)
      conditionValue == Eval(condition.value, state)
  IN CASE condition.operator = "greaterThan" -> JsLess(conditionValue, stateValue)
       [] condition.operator = "lessThan" -> JsLess(stateValue, conditionValue)
       [] condition.operator = "greaterThanOrEqual" -> JsLessEq(conditionValue, stateValue)
       [] condition.operator = "lessThanOrEqual" -> JsLessEq(stateValue, conditionValue)
       [] condition.operator = "notEquals" -> ~StrictEquals(stateValue, conditionValue)
       [] OTHER -> StrictEquals(stateValue, conditionValue)

\* ResourceConsumed with the consumed flag never consulted
ResourceNeverConsumed(state, condition) == FALSE

\* the resource-consumed override of checkPreconditions
ResourceConsumed(state, condition) ==
  /\ condition.key \in resourceKeys
  /\ condition.operator = "greaterThanOrEqual"
  /\ Truthy(Get(state, ConsumedKey(condition.key)))

\* checkPreconditions(state, preconditions)
CheckPreconditions(state, preconditions) ==
  \A i \in 1..Len(preconditions) :
    /\ ~ResourceConsumed(state, preconditions[i])
    /\ CheckPrecondition(state, preconditions[i])

\* SatisfiesGoal content with any one condition of the goal
SatisfiesGoalAny(state, g) ==
  \E i \in 1..Len(g.conditions) : CheckPrecondition(state, g.conditions[i])

\* satisfiesGoal(state, goal)
SatisfiesGoal(state, g) ==
  \A i \in 1..Len(g.conditions) : CheckPrecondition(state, g.conditions[i])

\* a cost as the number findPlan adds up (the modelled cost functions return
\* numbers on the modelled states)
CostOf(cost, state) == Eval(cost, state).n

\* CalculateActionCost with a cost function given the state as it is
CalculateActionCostCurrent(action, state) == CostOf(action.cost, state)

\* calculateActionCost(action, state)
CalculateActionCost(action, state) ==
  IF IsFunction(action.cost)
  THEN LET projectedState == ApplyEffects(state, action.effects)
       IN CostOf(action.cost, projectedState)
  ELSE CostOf(action.cost, state)

(***************************************************************************)
(* GOAPPlanner: the forward estimate and the progress measure.             *)
(***************************************************************************)
\* action.effects.some((effect) => effect.key === 'goal' && effect.value === true)
IsGoalAction(action) ==
  \E i \in 1..Len(action.effects) :
    /\ action.effects[i].key = "goal"
    /\ ~IsFunction(action.effects[i].value)
    /\ StrictEquals(action.effects[i].value.v, Bool(TRUE))

\* this.actions.filter(...): the registered goal-marker actions, in order
GoalActions == SelectSeq(actions, LAMBDA id : IsGoalAction(ActionPool[id]))

IsThreshold(precond) ==
  precond.operator \in {"greaterThan", "greaterThanOrEqual"}

\* state[precond.key] || 0
CurrentOf(state, precond) ==
  LET v == Get(state, precond.key) IN IF Truthy(v) THEN v ELSE Num(0)

\* precond.value as a number (a function is not one)
TargetOf(precond) ==
  IF IsFunction(precond.value) THEN NaN ELSE ToNumber(precond.value.v)

\* Math.ceil(n / 5)
CeilDiv5(n) == (n + 4) \div 5

MaxOf(a, b) == IF a >= b THEN a ELSE b

\* the inner loop of projectFutureCosts: [proj, req] after preconditions i..
RECURSIVE ProjectPreconditions(_, _, _, _)
ProjectPreconditions(state, preconditions, i, acc) ==
  IF i > Len(preconditions)
  THEN acc
  ELSE LET precond == preconditions[i]
           current == ToNumber(CurrentOf(state, precond))
           target == TargetOf(precond)
           next ==
             IF IsThreshold(precond) /\ JsLessEq(current, target)
             THEN [proj |-> acc.proj + CeilDiv5(target.n - current.n),
                   req |-> MaxOf(acc.req, target.n)]
             ELSE acc
       IN ProjectPreconditions(state, preconditions, i + 1, next)

\* the projection of one goal-marker action
ActionProjection(state, action) ==
  LET acc == ProjectPreconditions(state, action.preconditions, 1,
                                  [proj |-> 0, req |-> 0])
      finalStateCost ==
        IF IsFunction(action.cost)
        THEN CostOf(action.cost, Put(state, "resources", Num(acc.req)))
        ELSE CostOf(action.cost, state)
  IN acc.proj + finalStateCost

\* the outer loop of projectFutureCosts
RECURSIVE ProjectFrom(_, _, _, _)
ProjectFrom(state, goalActions, i, projection) ==
  IF i > Len(goalActions)
  THEN projection
  ELSE LET actionProjection == ActionProjection(state, ActionPool[goalActions[i]])
       IN ProjectFrom(state, goalActions, i + 1,
                      IF projection = 0 \/ actionProjection < projection
                      THEN actionProjection
                      ELSE projection)

\* projectFutureCosts(state, goal)
ProjectFutureCosts(state, g) == ProjectFrom(state, GoalActions, 1, 0)

(* Progress values are rationals <<numerator, denominator>> with a         *)
(* denominator > 0; a denominator 0 stands for NaN, which every sum with   *)
(* it is too.                                                              *)
FracAdd(x, y) == <<x[1] * y[2] + y[1] * x[2], x[2] * y[2]>>

\* the sign of x - y as Array.prototype.sort reads it: NaN counts as +0
FracCompare(x, y) ==
  LET l == x[1] * y[2]
      r == y[1] * x[2]
  IN IF x[2] = 0 \/ y[2] = 0
     THEN 0
     ELSE IF l < r THEN -1 ELSE IF l > r THEN 1 ELSE 0

\* Math.min(1, current / target) for numbers current and target: over a
\* zero target a positive current gives min(1, Infinity) = 1 and a zero
\* current gives min(1, 0 / 0) = NaN (no state of the domains has a
\* negative current over a zero target)
MinOneRatio(current, target) ==
  IF target > 0
  THEN IF current >= target THEN <<1, 1>> ELSE <<current, target>>
  ELSE IF target < 0
       THEN IF current <= target THEN <<1, 1>> ELSE <<-current, -target>>
       ELSE IF current > 0 THEN <<1, 1>> ELSE <<0, 0>>

RECURSIVE ProgressPreconditions(_, _, _, _)
ProgressPreconditions(state, preconditions, i, progress) ==
  IF i > Len(preconditions)
  THEN progress
  ELSE LET precond == preconditions[i]
           current == ToNumber(CurrentOf(state, precond))
           target == TargetOf(precond)
       IN ProgressPreconditions(state, preconditions, i + 1,
            IF IsThreshold(precond)
            THEN FracAdd(progress, MinOneRatio(current.n, target.n))
            ELSE progress)

RECURSIVE ProgressFrom(_, _, _, _)
ProgressFrom(state, goalActions, i, progress) ==
  IF i > Len(goalActions)
  THEN progress
  ELSE ProgressFrom(state, goalActions, i + 1,
         ProgressPreconditions(state, ActionPool[goalActions[i]].preconditions,
                               1, progress))

\* evaluateStateProgress(state)
EvaluateStateProgress(state) == ProgressFrom(state, GoalActions, 1, <<0, 1>>)

(***************************************************************************)
(* GOAPPlanner.getStateHash.  String.localeCompare orders the keys: first  *)
(* by letters regardless of case (punctuation before digits before         *)
(* letters, a shorter key before its extensions), then lower case first.   *)
(***************************************************************************)
LowerCase == "abcdefghijklmnopqrstuvwxyz"

UpperCase == "ABCDEFGHIJKLMNOPQRSTUVWXYZ"

PrimaryOrder == "_0123456789abcdefghijklmnopqrstuvwxyz"

CharAt(s, i) == SubSeq(s, i, i)

IndexIn(s, c) ==
  IF \E j \in 1..Len(s) : CharAt(s, j) = c
  THEN CHOOSE j \in 1..Len(s) : CharAt(s, j) = c
  ELSE 0

IsUpper(c) == IndexIn(UpperCase, c) > 0

ToLower(c) == IF IsUpper(c) THEN CharAt(LowerCase, IndexIn(UpperCase, c)) ELSE c

PrimaryWeight(c) == IndexIn(PrimaryOrder, ToLower(c))

RECURSIVE ComparePrimary(_, _, _)
ComparePrimary(a, b, i) ==
  IF i > Len(a) \/ i > Len(b)
  THEN Len(a) - Len(b)
  ELSE IF PrimaryWeight(CharAt(a, i)) # PrimaryWeight(CharAt(b, i))
       THEN PrimaryWeight(CharAt(a, i)) - PrimaryWeight(CharAt(b, i))
       ELSE ComparePrimary(a, b, i + 1)

RECURSIVE CompareCase(_, _, _)
CompareCase(a, b, i) ==
  IF i > Len(a) \/ i > Len(b)
  THEN 0
  ELSE IF IsUpper(CharAt(a, i)) # IsUpper(CharAt(b, i))
       THEN IF IsUpper(CharAt(a, i)) THEN 1 ELSE -1
       ELSE CompareCase(a, b, i + 1)

\* a.localeCompare(b)
LocaleCompare(a, b) ==
  IF ComparePrimary(a, b, 1) # 0 THEN ComparePrimary(a, b, 1) ELSE CompareCase(a, b, 1)

\* every key a modelled state can hold
EffectKeys ==
  UNION {{ActionPool[a].effects[i].key : i \in DOMAIN ActionPool[a].effects} :
           a \in DOMAIN ActionPool}

InitialKeys == UNION {Keys(s) : s \in UNION {Domains[d].inits : d \in DOMAIN Domains}}

KeyUniverse ==
  LET base == InitialKeys \cup EffectKeys
  IN base \cup {ConsumedKey(k) : k \in base}

RECURSIVE SortKeys(_)
SortKeys(S) ==
  IF S = {}
  THEN <<>>
  ELSE LET m == CHOOSE x \in S : \A y \in S : LocaleCompare(x, y) <= 0
       IN <<m>> \o SortKeys(S \ {m})

\* the key universe in localeCompare order
SortedKeys == SortKeys(KeyUniverse)

\* JSON.stringify of a value inside an array
JsonValue(v) == IF v.t \in {"undefined", "NaN"} THEN Null ELSE v

\* Object.entries(state).filter(...).sort(...): the entries whose key does
\* (consumed) or does not end in '_consumed', ordered by key
SortedEntries(state, consumed) ==
  LET ks == SelectSeq(SortedKeys,
                      LAMBDA k : HasKey(state, k) /\ (EndsWithConsumed(k) <=> consumed))
  IN [i \in 1..Len(ks) |-> <<ks[i], JsonValue(Get(state, ks[i]))>>]

\* getStateHash(state): the JSON text, as the value it denotes
GetStateHash(state) ==
  [state |-> SortedEntries(state, FALSE), consumed |-> SortedEntries(state, TRUE)]

(***************************************************************************)
(* PriorityQueue and the comparator findPlan gives it.                     *)
(***************************************************************************)
\* PlanNode { state, actions, cost, priority }; shared: its state is the
\* caller's initialState object itself (the seed node), not a copy
PlanNode(state, acts, cost, priority, shared) ==
  [state |-> state, actions |-> acts, cost |-> cost, priority |-> priority,
   shared |-> shared]

\* a comparator that looks at the priorities only
ComparePriorityOnly(a, b) == a.priority - b.priority

\* the comparator (a, b) => ... of findPlan, as the sign of its result
Compare(a, b) ==
  IF a.priority = b.priority
  THEN FracCompare(EvaluateStateProgress(b.state), EvaluateStateProgress(a.state))
  ELSE a.priority - b.priority

\* how many elements of the sorted items[lo+1..hi] do not compare greater
\* than item, plus lo (a binary search)
RECURSIVE UpperBound(_, _, _, _)
UpperBound(items, item, lo, hi) ==
  IF lo >= hi
  THEN lo
  ELSE LET mid == (lo + hi) \div 2
       IN IF Compare(items[mid + 1], item) <= 0
          THEN UpperBound(items, item, mid + 1, hi)
          ELSE UpperBound(items, item, lo, mid)

\* PushAndSort without the sort
PushOnly(items, item) == Append(items, item)

\* PushAndSort with the item landing in front of the elements it compares
\* equal to
PushBeforeEquals(items, item) ==
  LET n == Cardinality({k \in DOMAIN items :
                          \A m \in 1..k : Compare(items[m], item) < 0})
  IN SubSeq(items, 1, n) \o <<item>> \o SubSeq(items, n + 1, Len(items))

\* items.push(item); items.sort(compare).  The sort is stable and items was
\* sorted before the push, so the item lands behind the last element that
\* does not compare greater than it.
PushAndSort(items, item) ==
  LET n == UpperBound(items, item, 0, Len(items))
  IN SubSeq(items, 1, n) \o <<item>> \o SubSeq(items, n + 1, Len(items))

\* Enqueue leaving out an item the queue already holds
EnqueueUnlessHeld(items, item) ==
  IF \E i \in DOMAIN items : items[i] = item
  THEN items
  ELSE PushAndSort(items, item)

\* enqueue(item), its receiver and argument evaluated once, as at a call
Enqueue(items, item) ==
  CHOOSE sorted \in {PushAndSort(its, it) : its \in {items}, it \in {item}} : TRUE

\* Dequeue leaving the last item where it is
DequeueButLast(items) == IF Len(items) <= 1 THEN items ELSE Tail(items)

\* dequeue(): items.shift(), what it leaves in items (shift on an empty array
\* leaves it empty)
Dequeue(items) == IF Len(items) = 0 THEN items ELSE Tail(items)

\* dequeue(): what items.shift() returns, undefined on an empty array
Shifted(items) ==
  IF Len(items) = 0
  THEN [undefined |-> TRUE, item |-> <<>>]
  ELSE [undefined |-> FALSE, item |-> Head(items)]

\* isEmpty()
IsEmpty(items) == Len(items) = 0

(***************************************************************************)
(* GOAPPlanner: registration and resource marking.                         *)
(***************************************************************************)
\* private maxIterations = 1000
maxIterations == 1000

\* the cycle guard: `if (visitCount > 10) continue`
maxVisits == 10

\* how many actions a caller registers at most
MaxActions == 2

\* bestCost: Infinity, or a number
Infinity == [inf |-> TRUE, n |-> 0]

Finite(n) == [inf |-> FALSE, n |-> n]

\* n < bestCost
LessThanBest(n, best) == best.inf \/ n < best.n

\* bestPlan: null, or an action list
NullPlan == [null |-> TRUE, actions |-> <<>>]

Plan(acts) == [null |-> FALSE, actions |-> acts]

NoVisits == [h \in {} |-> 0]

\* visited.get(stateHash) || 0
VisitCount(v, stateHash) == IF stateHash \in DOMAIN v THEN v[stateHash] ELSE 0

\* visited.set(stateHash, n)
SetVisit(v, stateHash, n) == (stateHash :> n) @@ v

NotInCall == pc = "idle" /\ apc = "idle"

\* addAction(action)
AddAction(id) ==
  /\ NotInCall
  /\ Len(actions) < MaxActions
  /\ actions' = Append(actions, id)
  /\ UNCHANGED <<callerVars, resourceKeys, searchVars, agentVars>>

\* RemoveAction taking out the first action of that name only
RemoveFirstNamed(actionName) ==
  /\ NotInCall
  /\ LET hits == {i \in DOMAIN actions : ActionPool[actions[i]].name = actionName}
         first == IF hits = {} THEN 0 ELSE CHOOSE i \in hits : \A j \in hits : i <= j
     IN actions' = SubSeq(actions, 1, first - 1) \o SubSeq(actions, first + 1, Len(actions))
  /\ UNCHANGED <<callerVars, resourceKeys, searchVars, agentVars>>

\* removeAction(actionName)
RemoveAction(actionName) ==
  /\ NotInCall
  /\ actions' = SelectSeq(actions, LAMBDA id : ActionPool[id].name # actionName)
  /\ UNCHANGED <<callerVars, resourceKeys, searchVars, agentVars>>

\* markAsResource(key)
MarkAsResource(key) ==
  /\ NotInCall
  /\ resourceKeys' = resourceKeys \cup {key}
  /\ UNCHANGED <<callerVars, actions, searchVars, agentVars>>

\* clearResourceTracking()
ClearResourceTracking ==
  /\ NotInCall
  /\ resourceKeys' = {}
  /\ UNCHANGED <<callerVars, actions, searchVars, agentVars>>

(***************************************************************************)
(* GOAPPlanner.findPlan, one loop iteration per step.                      *)
(***************************************************************************)
\* FindPlanEnter with bestCost living on from the call before
FindPlanEnterStaleBest(init, g) ==
  /\ initialState' = init
  /\ goal' = g
  /\ queue' = Enqueue(<<>>, PlanNode(init, <<>>, 0, 0, TRUE))
  /\ visited' = NoVisits
  /\ iterations' = 0
  /\ bestPlan' = NullPlan
  /\ bestCost' = bestCost
  /\ result' = <<>>
  /\ pc' = "loop"

\* findPlan's statements before the loop
FindPlanEnter(init, g) ==
  /\ initialState' = init
  /\ goal' = g
  /\ queue' = Enqueue(<<>>, PlanNode(init, <<>>, 0, 0, TRUE))
  /\ visited' = NoVisits
  /\ iterations' = 0
  /\ bestPlan' = NullPlan
  /\ bestCost' = Infinity
  /\ result' = <<>>
  /\ pc' = "loop"

\* a caller calls planner.findPlan(initialState, goal)
FindPlanCall(init, g) ==
  /\ NotInCall
  /\ FindPlanEnter(init, g)
  /\ UNCHANGED <<callerVars, plannerFields, agentVars>>

\* LoopGuard without the iteration budget
LoopGuardUnbounded == pc = "loop" /\ ~IsEmpty(queue)

\* while (!queue.isEmpty() && iterations < this.maxIterations)
LoopGuard == pc = "loop" /\ ~IsEmpty(queue) /\ iterations < maxIterations

\* ValidActions with the precondition filter left out
ValidActionsUnfiltered(state) == actions

\* this.actions.filter((action) => this.checkPreconditions(...))
ValidActions(state) ==
  SelectSeq(actions, LAMBDA id : CheckPreconditions(state, ActionPool[id].preconditions))

\* ExpandOne pruning on the cost function applied to the state as it is
ExpandOnePrunedBefore(items, current, id) ==
  LET action == ActionPool[id]
      newState == ApplyEffects(current.state, action.effects)
      actionCost == CalculateActionCost(action, current.state)
      totalCost == current.cost + actionCost
      projectedCost == ProjectFutureCosts(newState, goal)
      priority == totalCost + projectedCost
  IN IF ~LessThanBest(current.cost + CostOf(action.cost, current.state), bestCost)
     THEN items
     ELSE Enqueue(items, PlanNode(newState, Append(current.actions, id),
                                  totalCost, priority, FALSE))

\* ExpandOne with the forward estimate taken at the node's own state
ExpandOneEstimateBefore(items, current, id) ==
  LET action == ActionPool[id]
      newState == ApplyEffects(current.state, action.effects)
      actionCost == CalculateActionCost(action, current.state)
      totalCost == current.cost + actionCost
      projectedCost == ProjectFutureCosts(current.state, goal)
      priority == totalCost + projectedCost
  IN IF ~LessThanBest(totalCost, bestCost)
     THEN items
     ELSE Enqueue(items, PlanNode(newState, Append(current.actions, id),
                                  totalCost, priority, FALSE))

\* ExpandOne without `if (totalCost >= bestCost) continue`
ExpandOneUnpruned(items, current, id) ==
  LET action == ActionPool[id]
      newState == ApplyEffects(current.state, action.effects)
      actionCost == CalculateActionCost(action, current.state)
      totalCost == current.cost + actionCost
      projectedCost == ProjectFutureCosts(newState, goal)
      priority == totalCost + projectedCost
  IN Enqueue(items, PlanNode(newState, Append(current.actions, id),
                             totalCost, priority, FALSE))

\* the body of `for (const action of validActions)` for one action
ExpandOne(items, current, id) ==
  LET action == ActionPool[id]
      newState == ApplyEffects(current.state, action.effects)
      actionCost == CalculateActionCost(action, current.state)
      totalCost == current.cost + actionCost
      projectedCost == ProjectFutureCosts(newState, goal)
      priority == totalCost + projectedCost
  IN IF ~LessThanBest(totalCost, bestCost)
     THEN items
     ELSE Enqueue(items, PlanNode(newState, Append(current.actions, id),
                                  totalCost, priority, FALSE))

RECURSIVE ExpandFrom(_, _, _, _)
ExpandFrom(items, current, validActions, i) ==
  IF i > Len(validActions)
  THEN items
  ELSE ExpandFrom(ExpandOne(items, current, validActions[i]), current,
                  validActions, i + 1)

\* the caller's initialState object after the expansion of `current`: the
\* seed node holds that object itself, and applyEffects receives it
RECURSIVE ArgumentAfter(_, _, _)
ArgumentAfter(state, validActions, i) ==
  IF i > Len(validActions)
  THEN state
  ELSE ArgumentAfter(ApplyEffectsArgument(state, ActionPool[validActions[i]].effects),
                     validActions, i + 1)

\* LoopGoal leaving the iteration counter as it is
LoopGoalUncounted ==
  /\ LoopGuard
  /\ LET current == Head(queue)
     IN /\ SatisfiesGoal(current.state, goal)
        /\ queue' = Dequeue(queue)
        /\ IF LessThanBest(current.cost, bestCost)
           THEN bestPlan' = Plan(current.actions) /\ bestCost' = Finite(current.cost)
           ELSE UNCHANGED <<bestPlan, bestCost>>
  /\ UNCHANGED <<callerVars, plannerFields, initialState, goal, visited, iterations,
                 result, pc, agentVars>>

\* LoopGoal recording every goal node it dequeues, dearer ones included
LoopGoalLastWins ==
  /\ LoopGuard
  /\ LET current == Head(queue)
     IN /\ SatisfiesGoal(current.state, goal)
        /\ iterations' = iterations + 1
        /\ queue' = Dequeue(queue)
        /\ bestPlan' = Plan(current.actions)
        /\ bestCost' = Finite(current.cost)
  /\ UNCHANGED <<callerVars, plannerFields, initialState, goal, visited, result, pc,
                 agentVars>>

\* LoopGoal going on to expand the node after it has recorded it
LoopGoalExpands ==
  /\ LoopGuard
  /\ LET current == Head(queue)
     IN /\ SatisfiesGoal(current.state, goal)
        /\ iterations' = iterations + 1
        /\ queue' = ExpandFrom(Dequeue(queue), current,
                               ValidActions(current.state), 1)
        /\ IF LessThanBest(current.cost, bestCost)
           THEN bestPlan' = Plan(current.actions) /\ bestCost' = Finite(current.cost)
           ELSE UNCHANGED <<bestPlan, bestCost>>
  /\ UNCHANGED <<callerVars, plannerFields, initialState, goal, visited, result, pc,
                 agentVars>>

\* an iteration whose node satisfies the goal
LoopGoal ==
  /\ LoopGuard
  /\ LET current == Head(queue)
     IN /\ SatisfiesGoal(current.state, goal)
        /\ iterations' = iterations + 1
        /\ queue' = Dequeue(queue)
        /\ IF LessThanBest(current.cost, bestCost)
           THEN bestPlan' = Plan(current.actions) /\ bestCost' = Finite(current.cost)
           ELSE UNCHANGED <<bestPlan, bestCost>>
  /\ UNCHANGED <<callerVars, plannerFields, initialState, goal, visited, result, pc,
                 agentVars>>

\* LoopSkip taking its `continue` without having dequeued or counted
LoopSkipStuck ==
  /\ LoopGuard
  /\ LET current == Head(queue)
     IN /\ ~SatisfiesGoal(current.state, goal)
        /\ VisitCount(visited, GetStateHash(current.state)) > maxVisits
  /\ UNCHANGED vars

\* an iteration the cycle guard cuts short
LoopSkip ==
  /\ LoopGuard
  /\ LET current == Head(queue)
     IN /\ ~SatisfiesGoal(current.state, goal)
        /\ VisitCount(visited, GetStateHash(current.state)) > maxVisits
        /\ iterations' = iterations + 1
        /\ queue' = Dequeue(queue)
  /\ UNCHANGED <<callerVars, plannerFields, initialState, goal, visited, bestPlan,
                 bestCost, result, pc, agentVars>>

\* LoopExpand without the cycle guard
LoopExpandUnguarded ==
  /\ LoopGuard
  /\ LET current == Head(queue)
         stateHash == GetStateHash(current.state)
         visitCount == VisitCount(visited, stateHash)
         validActions == ValidActions(current.state)
     IN /\ ~SatisfiesGoal(current.state, goal)
        /\ iterations' = iterations + 1
        /\ visited' = SetVisit(visited, stateHash, visitCount + 1)
        /\ queue' = ExpandFrom(Dequeue(queue), current, validActions, 1)
        /\ initialState' = IF current.shared
                           THEN ArgumentAfter(initialState, validActions, 1)
                           ELSE initialState
  /\ UNCHANGED <<callerVars, plannerFields, goal, bestPlan, bestCost, result, pc,
                 agentVars>>

\* an iteration that expands its node
LoopExpand ==
  /\ LoopGuard
  /\ LET current == Head(queue)
         stateHash == GetStateHash(current.state)
         visitCount == VisitCount(visited, stateHash)
         validActions == ValidActions(current.state)
     IN /\ ~SatisfiesGoal(current.state, goal)
        /\ ~(visitCount > maxVisits)
        /\ iterations' = iterations + 1
        /\ visited' = SetVisit(visited, stateHash, visitCount + 1)
        /\ queue' = ExpandFrom(Dequeue(queue), current, validActions, 1)
        /\ initialState' = IF current.shared
                           THEN ArgumentAfter(initialState, validActions, 1)
                           ELSE initialState
  /\ UNCHANGED <<callerVars, plannerFields, goal, bestPlan, bestCost, result, pc,
                 agentVars>>

\* the loop ends: `return bestPlan || []`
FindPlanReturn ==
  /\ pc = "loop"
  /\ ~(~IsEmpty(queue) /\ iterations < maxIterations)
  /\ result' = IF bestPlan.null THEN <<>> ELSE bestPlan.actions
  /\ pc' = "returned"
  /\ UNCHANGED <<callerVars, plannerFields, initialState, goal, queue, visited,
                 iterations, bestPlan, bestCost, agentVars>>

\* findPlan's frame is gone
ResetSearch ==
  /\ initialState' = <<>>
  /\ goal' = Goal("", <<>>)
  /\ queue' = <<>>
  /\ visited' = NoVisits
  /\ iterations' = 0
  /\ bestPlan' = NullPlan
  /\ bestCost' = Infinity
  /\ result' = <<>>
  /\ pc' = "idle"

\* the caller has taken the returned plan
CallerContinue ==
  /\ pc = "returned"
  /\ apc = "idle"
  /\ ResetSearch
  /\ UNCHANGED <<callerVars, plannerFields, agentVars>>

(***************************************************************************)
(* Agent.                                                                  *)
(***************************************************************************)
\* how many executePlan calls a caller makes at most
MaxRuns == 2

\* one turn of the forEach of updateWorldState: effect functions read `state`
UpdateOne(newState, state, effect) == Put(newState, effect.key, Eval(effect.value, state))

RECURSIVE UpdateFrom(_, _, _, _)
UpdateFrom(newState, state, effects, i) ==
  IF i > Len(effects)
  THEN newState
  ELSE UpdateFrom(UpdateOne(newState, state, effects[i]), state, effects, i + 1)

\* updateWorldState(state, action)
UpdateWorldState(state, action) == UpdateFrom(state, state, action.effects, 1)

\* executePlan(goal) up to the call of findPlan(this.worldState, goal)
ExecutePlanCall(g) ==
  /\ NotInCall
  /\ runs < MaxRuns
  /\ runs' = runs + 1
  /\ FindPlanEnter(worldState, g)
  /\ apc' = "planning"
  /\ agentResult' = "pending"
  /\ execLog' = <<>>
  /\ stateAtCall' = worldState
  /\ UNCHANGED <<callerVars, plannerFields, worldState, currentPlan,
                 execInitialState, idx>>

\* PlanReceived without the test for the empty plan
PlanReceivedUntested ==
  /\ apc = "planning"
  /\ pc = "returned"
  /\ currentPlan' = result
  /\ worldState' = initialState
  /\ execInitialState' = initialState
  /\ idx' = 1
  /\ apc' = "running"
  /\ UNCHANGED agentResult
  /\ ResetSearch
  /\ UNCHANGED <<callerVars, plannerFields, execLog, runs, stateAtCall>>

\* findPlan has returned: this.currentPlan = ...; the empty plan resolves
\* false, otherwise `const initialState = { ...this.worldState }`
PlanReceived ==
  /\ apc = "planning"
  /\ pc = "returned"
  /\ currentPlan' = result
  /\ worldState' = initialState
  /\ IF Len(result) = 0
     THEN /\ agentResult' = "false"
          /\ apc' = "idle"
          /\ UNCHANGED <<execInitialState, idx>>
     ELSE /\ execInitialState' = initialState
          /\ idx' = 1
          /\ apc' = "running"
          /\ UNCHANGED agentResult
  /\ ResetSearch
  /\ UNCHANGED <<callerVars, plannerFields, execLog, runs, stateAtCall>>

CurrentAction == ActionPool[currentPlan[idx]]

\* ExecuteStart that does not await: the effects are folded in and the loop
\* moves on while the operation is still running
ExecuteStartNoAwait ==
  /\ apc = "running"
  /\ idx <= Len(currentPlan)
  /\ CurrentAction.execute
  /\ worldState' = UpdateWorldState(worldState, CurrentAction)
  /\ idx' = idx + 1
  /\ execLog' = execLog \o << <<"start", idx>>, <<"apply", idx>> >>
  /\ UNCHANGED <<callerVars, plannerFields, searchVars, currentPlan,
                 execInitialState, apc, agentResult, runs, stateAtCall>>

\* `await action.execute()` starts the operation
ExecuteStart ==
  /\ apc = "running"
  /\ idx <= Len(currentPlan)
  /\ CurrentAction.execute
  /\ apc' = "awaiting"
  /\ execLog' = Append(execLog, <<"start", idx>>)
  /\ UNCHANGED <<callerVars, plannerFields, searchVars, worldState, currentPlan,
                 execInitialState, idx, agentResult, runs, stateAtCall>>

\* the operation completes; the action's effects are folded in
ExecuteResolved ==
  /\ apc = "awaiting"
  /\ worldState' = UpdateWorldState(worldState, CurrentAction)
  /\ idx' = idx + 1
  /\ apc' = "running"
  /\ execLog' = execLog \o << <<"end", idx>>, <<"apply", idx>> >>
  /\ UNCHANGED <<callerVars, plannerFields, searchVars, currentPlan,
                 execInitialState, agentResult, runs, stateAtCall>>

\* ExecuteRejected without the rollback assignment of the catch block
ExecuteRejectedKeepsState ==
  /\ apc = "awaiting"
  /\ agentResult' = "false"
  /\ apc' = "idle"
  /\ execLog' = Append(execLog, <<"fail", idx>>)
  /\ UNCHANGED <<callerVars, plannerFields, searchVars, worldState, currentPlan,
                 execInitialState, idx, runs, stateAtCall>>

\* the operation throws or rejects: catch, roll back, resolve false
ExecuteRejected ==
  /\ apc = "awaiting"
  /\ worldState' = execInitialState
  /\ agentResult' = "false"
  /\ apc' = "idle"
  /\ execLog' = Append(execLog, <<"fail", idx>>)
  /\ UNCHANGED <<callerVars, plannerFields, searchVars, currentPlan,
                 execInitialState, idx, runs, stateAtCall>>

\* an action without an execute operation: only its effects
ApplyWithoutExecute ==
  /\ apc = "running"
  /\ idx <= Len(currentPlan)
  /\ ~CurrentAction.execute
  /\ worldState' = UpdateWorldState(worldState, CurrentAction)
  /\ idx' = idx + 1
  /\ execLog' = Append(execLog, <<"apply", idx>>)
  /\ UNCHANGED <<callerVars, plannerFields, searchVars, currentPlan,
                 execInitialState, apc, agentResult, runs, stateAtCall>>

\* the loop over the plan ends: resolve true
ExecutePlanDone ==
  /\ apc = "running"
  /\ idx > Len(currentPlan)
  /\ agentResult' = "true"
  /\ apc' = "idle"
  /\ UNCHANGED <<callerVars, plannerFields, searchVars, worldState, currentPlan,
                 execInitialState, idx, execLog, runs, stateAtCall>>

(***************************************************************************)
(* Specifications.                                                         *)
(***************************************************************************)
\* the domains whose actions a caller registers one by one
SmallScenarios == {d \in DOMAIN Domains : Cardinality(Domains[d].pool) <= 3}

PlannerScenarios ==
  {d \in SmallScenarios : \A a \in Domains[d].pool : ~ActionPool[a].execute}

\* the domain of the action whose last effect reads what its first two write
DependentScenario == CHOOSE d \in DOMAIN Domains : 34 \in Domains[d].pool

\* the domains an Agent is built on: those with execute operations, and the
\* one of the dependent effects
AgentScenarios ==
  {d \in SmallScenarios : \E a \in Domains[d].pool : ActionPool[a].execute}
    \cup {DependentScenario}

\* the README's 'Complex Planning' example
ReadmeScenario == CHOOSE d \in DOMAIN Domains : Cardinality(Domains[d].pool) > 3

\* its `actions.forEach(action => planner.addAction(action))`
ReadmeActions == <<18, 19, 20, 21, 22, 23>>

\* the caller has kept no plan and used no queue
NothingKept == [kept |-> FALSE]

\* how many executePlan invocations a caller has in flight at most
MaxOverlap == 2

Invocations == 1..MaxOverlap

\* an executePlan invocation that has not been made
NotInvoked ==
  [pos |-> "none", plan |-> <<>>, idx |-> 0, initialState |-> <<>>,
   during |-> {}, left |-> <<>>]

NoCalls == [i \in Invocations |-> NotInvoked]

NoCaller ==
  /\ kept = NothingKept
  /\ enqueued = <<>>
  /\ dequeued = <<>>
  /\ calls = NoCalls

NoAgent ==
  /\ worldState = <<>>
  /\ currentPlan = <<>>
  /\ apc = "idle"
  /\ execInitialState = <<>>
  /\ idx = 0
  /\ agentResult = "none"
  /\ execLog = <<>>
  /\ runs = 0
  /\ stateAtCall = <<>>

NoSearch ==
  /\ initialState = <<>>
  /\ goal = Goal("", <<>>)
  /\ queue = <<>>
  /\ visited = NoVisits
  /\ iterations = 0
  /\ bestPlan = NullPlan
  /\ bestCost = Infinity
  /\ result = <<>>
  /\ pc = "idle"

\* new GOAPPlanner()
Init ==
  /\ scenario \in PlannerScenarios
  /\ actions = <<>>
  /\ resourceKeys = {}
  /\ NoSearch
  /\ NoCaller
  /\ NoAgent

FindPlanStep == LoopGoal \/ LoopSkip \/ LoopExpand \/ FindPlanReturn

Next ==
  \/ \E id \in Domains[scenario].pool : AddAction(id)
  \/ \E id \in Domains[scenario].pool : RemoveAction(ActionPool[id].name)
  \/ \E key \in Domains[scenario].resources : MarkAsResource(key)
  \/ ClearResourceTracking
  \/ \E init \in Domains[scenario].inits, g \in Domains[scenario].goals :
       FindPlanCall(init, g)
  \/ LoopGoal
  \/ LoopSkip
  \/ LoopExpand
  \/ FindPlanReturn
  \/ CallerContinue

Spec == Init /\ [][Next]_vars

\* the search loop is a synchronous loop: it keeps running
LiveSpec == Spec /\ WF_vars(FindPlanStep)

\* new Agent(initialState)
AgentInit ==
  /\ scenario \in AgentScenarios
  /\ actions = <<>>
  /\ resourceKeys = {}
  /\ NoSearch
  /\ NoCaller
  /\ worldState \in Domains[scenario].inits
  /\ currentPlan = <<>>
  /\ apc = "idle"
  /\ execInitialState = <<>>
  /\ idx = 0
  /\ agentResult = "none"
  /\ execLog = <<>>
  /\ runs = 0
  /\ stateAtCall = <<>>

AgentNext ==
  \/ \E id \in Domains[scenario].pool : AddAction(id)
  \/ \E g \in Domains[scenario].goals : ExecutePlanCall(g)
  \/ LoopGoal
  \/ LoopSkip
  \/ LoopExpand
  \/ FindPlanReturn
  \/ PlanReceived
  \/ ExecuteStart
  \/ ExecuteResolved
  \/ ExecuteRejected
  \/ ApplyWithoutExecute
  \/ ExecutePlanDone

AgentSpec == AgentInit /\ [][AgentNext]_vars

\* the planner of the README's 'Complex Planning' example, its actions added
ReadmeInit ==
  /\ scenario = ReadmeScenario
  /\ actions = ReadmeActions
  /\ resourceKeys = {}
  /\ NoSearch
  /\ NoCaller
  /\ NoAgent

ReadmeNext ==
  \/ \E init \in Domains[scenario].inits, g \in Domains[scenario].goals :
       FindPlanCall(init, g)
  \/ LoopGoal
  \/ LoopSkip
  \/ LoopExpand
  \/ FindPlanReturn
  \/ CallerContinue

ReadmeSpec == ReadmeInit /\ [][ReadmeNext]_vars

(***************************************************************************)
(* Two findPlan calls on one planner, one after the other, the caller      *)
(* keeping the first call and its plan.                                    *)
(***************************************************************************)
\* the actions that are action `id` with nothing but a higher fixed cost
DearerVariants(id) ==
  {b \in DOMAIN ActionPool :
     /\ ~IsFunction(ActionPool[id].cost)
     /\ ~IsFunction(ActionPool[b].cost)
     /\ [ActionPool[b] EXCEPT !.cost = ActionPool[id].cost] = ActionPool[id]
     /\ CostOf(ActionPool[b].cost, <<>>) > CostOf(ActionPool[id].cost, <<>>)}

\* the caller keeps the returned plan and what it was computed from; the
\* finished call's locals are out of reach, and every call makes its own
CallerKeeps ==
  /\ pc = "returned"
  /\ apc = "idle"
  /\ ~kept.kept
  /\ kept' = [kept |-> TRUE, actions |-> actions, resourceKeys |-> resourceKeys,
              initialState |-> initialState, goal |-> goal, result |-> result]
  /\ pc' = "idle"
  /\ UNCHANGED <<scenario, enqueued, dequeued, calls, plannerFields, initialState, goal,
                 queue, visited, iterations, bestPlan, bestCost, result, agentVars>>

\* between the two calls the caller raises the cost of registered action i
RaiseCost(i, dearer) ==
  /\ NotInCall
  /\ kept.kept
  /\ actions = kept.actions
  /\ i \in DOMAIN actions
  /\ dearer \in DearerVariants(actions[i])
  /\ actions' = [actions EXCEPT ![i] = dearer]
  /\ UNCHANGED <<callerVars, resourceKeys, searchVars, agentVars>>

PairNext ==
  \/ ~kept.kept /\ \E id \in Domains[scenario].pool : AddAction(id)
  \/ ~kept.kept /\ \E key \in Domains[scenario].resources : MarkAsResource(key)
  \/ \E init \in Domains[scenario].inits, g \in Domains[scenario].goals :
       FindPlanCall(init, g)
  \/ LoopGoal
  \/ LoopSkip
  \/ LoopExpand
  \/ FindPlanReturn
  \/ CallerKeeps
  \/ \E i \in 1..MaxActions, dearer \in DOMAIN ActionPool : RaiseCost(i, dearer)

PairSpec == Init /\ [][PairNext]_vars

(***************************************************************************)
(* A PriorityQueue<PlanNode> of the caller's own, with findPlan's          *)
(* comparator: `queue` is its items, enqueued and dequeued its history.    *)
(***************************************************************************)
\* how many enqueue and dequeue calls the caller makes at most
MaxQueueOps == 6

\* the priorities of the nodes the caller enqueues
MaxPriority == 2

\* the nodes the caller enqueues: two of each priority, told apart by cost
QueueItems ==
  {PlanNode(<<>>, <<>>, c, p, FALSE) : c \in 0..1, p \in 1..MaxPriority}

QueueCalls == Len(enqueued) + Len(dequeued)

\* new PriorityQueue(compareFunction)
QueueInit ==
  /\ scenario = 1
  /\ actions = <<>>
  /\ resourceKeys = {}
  /\ NoSearch
  /\ NoCaller
  /\ NoAgent

\* queue.enqueue(item)
QueueEnqueue(item) ==
  /\ QueueCalls < MaxQueueOps
  /\ queue' = Enqueue(queue, item)
  /\ enqueued' = Append(enqueued, item)
  /\ UNCHANGED <<scenario, kept, dequeued, calls, plannerFields, pc, initialState, goal,
                 visited, iterations, bestPlan, bestCost, result, agentVars>>

\* queue.dequeue(); the caller notes what it returned and how many enqueue
\* calls it had made by then
QueueDequeue ==
  /\ QueueCalls < MaxQueueOps
  /\ queue' = Dequeue(queue)
  /\ dequeued' = Append(dequeued, [returned |-> Shifted(queue),
                                   enqueues |-> Len(enqueued)])
  /\ UNCHANGED <<scenario, kept, enqueued, calls, plannerFields, pc, initialState, goal,
                 visited, iterations, bestPlan, bestCost, result, agentVars>>

QueueNext ==
  \/ \E item \in QueueItems : QueueEnqueue(item)
  \/ QueueDequeue

QueueSpec == QueueInit /\ [][QueueNext]_vars

(***************************************************************************)
(* The action registry of a planner on which no search runs.               *)
(***************************************************************************)
\* how many actions the planner holds when the registry calls begin
MaxRegistered == 4

\* a planner with MaxRegistered actions of its domain registered
RegistryInit ==
  /\ scenario \in PlannerScenarios
  /\ actions \in [1..MaxRegistered -> Domains[scenario].pool]
  /\ resourceKeys = {}
  /\ NoSearch
  /\ NoCaller
  /\ NoAgent

RegistryNext ==
  \/ \E id \in Domains[scenario].pool : AddAction(id)
  \/ \E id \in Domains[scenario].pool : RemoveAction(ActionPool[id].name)

RegistrySpec == RegistryInit /\ [][RegistryNext]_vars

(***************************************************************************)
(* A planner holding Prepare, Recharge and the DynamicCostAction that      *)
(* recharges, in any order and number.                                     *)
(***************************************************************************)
\* how many actions that planner holds
CostActions == 3

\* the domain of the DynamicCostAction that recharges
CostScenario == CHOOSE d \in DOMAIN Domains : 28 \in Domains[d].pool

\* the domain of the two ways to 10 resources
PathScenario == CHOOSE d \in DOMAIN Domains : 33 \in Domains[d].pool

\* the domain of the value that is undefined or not a number
UndefinedScenario == CHOOSE d \in DOMAIN Domains : 35 \in Domains[d].pool

DynamicCostInit ==
  /\ scenario \in {CostScenario, PathScenario, UndefinedScenario}
  /\ actions \in [1..CostActions -> Domains[scenario].pool]
  /\ resourceKeys = {}
  /\ NoSearch
  /\ NoCaller
  /\ NoAgent

DynamicCostNext ==
  \/ \E init \in Domains[scenario].inits, g \in Domains[scenario].goals :
       FindPlanCall(init, g)
  \/ LoopGoal
  \/ LoopSkip
  \/ LoopExpand
  \/ FindPlanReturn
  \/ CallerContinue

DynamicCostSpec == DynamicCostInit /\ [][DynamicCostNext]_vars

(***************************************************************************)
(* An Agent on which a caller starts executePlan again while an earlier    *)
(* invocation is suspended at `await action.execute()`.  An invocation     *)
(* runs without interruption from one await to the next; findPlan is       *)
(* synchronous, so at most one invocation is inside it.                    *)
(***************************************************************************)
\* the invocations other than i are not running: not made, suspended at an
\* await, or settled
OthersSuspended(i) ==
  \A j \in Invocations \ {i} : calls[j].pos \in {"none", "awaiting", "true", "false"}

\* the action invocation i's loop is at
ActionOf(i) == ActionPool[calls[i].plan[calls[i].idx]]

\* executePlan(goal) up to the call of findPlan(this.worldState, goal)
InvokeExecutePlan(i, g) ==
  /\ pc = "idle"
  /\ calls[i].pos = "none"
  /\ \A j \in Invocations : j < i => calls[j].pos # "none"
  /\ OthersSuspended(i)
  /\ FindPlanEnter(worldState, g)
  /\ calls' = [calls EXCEPT ![i] =
                 [@ EXCEPT !.pos = "planning",
                           !.during = {j \in Invocations : calls[j].pos = "awaiting"}]]
  /\ UNCHANGED <<scenario, kept, enqueued, dequeued, plannerFields, agentVars>>

\* findPlan has returned to invocation i: this.currentPlan = ...; the empty
\* plan resolves false, otherwise `const initialState = { ...this.worldState }`
\* and the loop begins on the array just assigned
InvocationPlanReceived(i) ==
  /\ calls[i].pos = "planning"
  /\ pc = "returned"
  /\ currentPlan' = result
  /\ calls' = [calls EXCEPT ![i] =
                 IF Len(result) = 0
                 THEN [@ EXCEPT !.pos = "false"]
                 ELSE [@ EXCEPT !.pos = "running", !.plan = result, !.idx = 1,
                                !.initialState = worldState]]
  /\ ResetSearch
  /\ UNCHANGED <<scenario, kept, enqueued, dequeued, plannerFields, worldState,
                 apc, execInitialState, idx, agentResult, execLog, runs,
                 stateAtCall>>

\* `await action.execute()` starts the operation and suspends invocation i
InvocationAwait(i) ==
  /\ calls[i].pos = "running"
  /\ calls[i].idx <= Len(calls[i].plan)
  /\ ActionOf(i).execute
  /\ calls' = [calls EXCEPT ![i].pos = "awaiting"]
  /\ UNCHANGED <<scenario, kept, enqueued, dequeued, plannerFields, searchVars,
                 agentVars>>

\* the operation completes and invocation i resumes:
\* this.worldState = this.updateWorldState(this.worldState, action)
InvocationResumed(i) ==
  /\ pc = "idle"
  /\ calls[i].pos = "awaiting"
  /\ OthersSuspended(i)
  /\ worldState' = UpdateWorldState(worldState, ActionOf(i))
  /\ calls' = [calls EXCEPT ![i] =
                 [@ EXCEPT !.pos = "running", !.idx = @ + 1, !.left = worldState']]
  /\ UNCHANGED <<scenario, kept, enqueued, dequeued, plannerFields, searchVars,
                 currentPlan, apc, execInitialState, idx, agentResult, execLog,
                 runs, stateAtCall>>

\* the operation throws or rejects: invocation i resumes in its catch block,
\* this.worldState = initialState; return false
InvocationRejected(i) ==
  /\ pc = "idle"
  /\ calls[i].pos = "awaiting"
  /\ OthersSuspended(i)
  /\ worldState' = calls[i].initialState
  /\ calls' = [calls EXCEPT ![i].pos = "false"]
  /\ UNCHANGED <<scenario, kept, enqueued, dequeued, plannerFields, searchVars,
                 currentPlan, apc, execInitialState, idx, agentResult, execLog,
                 runs, stateAtCall>>

\* an action without an execute operation: only its effects
InvocationApply(i) ==
  /\ calls[i].pos = "running"
  /\ calls[i].idx <= Len(calls[i].plan)
  /\ ~ActionOf(i).execute
  /\ worldState' = UpdateWorldState(worldState, ActionOf(i))
  /\ calls' = [calls EXCEPT ![i] = [@ EXCEPT !.idx = @ + 1, !.left = worldState']]
  /\ UNCHANGED <<scenario, kept, enqueued, dequeued, plannerFields, searchVars,
                 currentPlan, apc, execInitialState, idx, agentResult, execLog,
                 runs, stateAtCall>>

\* invocation i's loop over its plan ends: resolve true
InvocationDone(i) ==
  /\ calls[i].pos = "running"
  /\ calls[i].idx > Len(calls[i].plan)
  /\ calls' = [calls EXCEPT ![i].pos = "true"]
  /\ UNCHANGED <<scenario, kept, enqueued, dequeued, plannerFields, searchVars,
                 agentVars>>

\* an Agent with the actions of its domain added, no executePlan made yet
OverlapInit ==
  /\ scenario \in AgentScenarios
  /\ actions \in UNION {[1..n -> Domains[scenario].pool] : n \in 1..MaxActions}
  /\ resourceKeys = {}
  /\ NoSearch
  /\ NoCaller
  /\ worldState \in Domains[scenario].inits
  /\ currentPlan = <<>>
  /\ apc = "idle"
  /\ execInitialState = <<>>
  /\ idx = 0
  /\ agentResult = "none"
  /\ execLog = <<>>
  /\ runs = 0
  /\ stateAtCall = <<>>

OverlapNext ==
  \/ \E i \in Invocations, g \in Domains[scenario].goals : InvokeExecutePlan(i, g)
  \/ LoopGoal
  \/ LoopSkip
  \/ LoopExpand
  \/ FindPlanReturn
  \/ \E i \in Invocations : InvocationPlanReceived(i)
  \/ \E i \in Invocations : InvocationAwait(i)
  \/ \E i \in Invocations : InvocationResumed(i)
  \/ \E i \in Invocations : InvocationRejected(i)
  \/ \E i \in Invocations : InvocationApply(i)
  \/ \E i \in Invocations : InvocationDone(i)

OverlapSpec == OverlapInit /\ [][OverlapNext]_vars

(***************************************************************************)
(* Replaying a plan from a state, outside the search.                      *)
(***************************************************************************)
\* replaying actions lo..hi of plan from state by halves: whether each was
\* eligible where it stood, the state reached, and the cost findPlan charges
RECURSIVE Replay(_, _, _, _)
Replay(state, plan, lo, hi) ==
  IF lo > hi
  THEN [ok |-> TRUE, state |-> state, cost |-> 0]
  ELSE IF lo = hi
  THEN [ok    |-> CheckPreconditions(state, ActionPool[plan[lo]].preconditions),
        state |-> ApplyEffects(state, ActionPool[plan[lo]].effects),
        cost  |-> CalculateActionCost(ActionPool[plan[lo]], state)]
  ELSE LET mid   == (lo + hi) \div 2
           left  == Replay(state, plan, lo, mid)
           right == Replay(left.state, plan, mid + 1, hi)
       IN [ok    |-> left.ok /\ right.ok,
           state |-> right.state,
           cost  |-> left.cost + right.cost]

\* the state after the first n actions of plan
StateAfter(init, plan, n) == Replay(init, plan, 1, n).state

PlanCost(init, plan) == Replay(init, plan, 1, Len(plan)).cost

\* every action of plan is eligible where it stands and the last state meets g
ValidPlan(init, g, plan) ==
  LET run == Replay(init, plan, 1, Len(plan))
  IN run.ok /\ SatisfiesGoal(run.state, g)

Returned == pc = "returned"

(***************************************************************************)
(* C1  Plan soundness: a non-empty plan returned by findPlan replays from  *)
(* initialState: each action's preconditions (with the resource-consumed   *)
(* override) hold in the state its predecessors leave, and the state after *)
(* the last action satisfies every goal condition.                         *)
(***************************************************************************)
C1_PlanSound ==
  (Returned /\ result # <<>>) => ValidPlan(initialState, goal, result)

\* a returned plan of three or more actions, one of them gated by a precondition
C1_Witness ==
  /\ Returned
  /\ Len(result) >= 3
  /\ \E i \in 1..Len(result) : ActionPool[result[i]].preconditions # <<>>

(***************************************************************************)
(* C2  Optimality: when a valid plan exists, findPlan returns a valid plan *)
(* whose accumulated cost is minimal among all valid plans.  Stated over   *)
(* the reference plans of the scenario: a returned plan must be valid and  *)
(* cost no more than any valid reference plan.                             *)
(***************************************************************************)
\* how long a reference plan of one repeated action is
LongPlanLength == 2001

\* GatherWood, GatherStone x2, CraftPickaxe, GatherStone x4, BuildFurnace,
\* MineOre, SmeltIron: a valid plan for the README's Complex Planning example
ReadmeReferencePlan == <<20, 21, 21, 19, 21, 21, 21, 21, 23, 18, 22>>

\* plans over the registered actions to compare the returned plan with: all of
\* at most two actions, each action repeated LongPlanLength times
\* (IncrementValue 2001 times reaches value > 2000), and the README plan
ReferencePlans ==
  LET ids == {actions[i] : i \in 1..Len(actions)}
  IN {<<>>} \cup {<<a>> : a \in ids} \cup {<<a, b>> : a \in ids, b \in ids}
     \cup {[i \in 1..LongPlanLength |-> a] : a \in ids}
     \cup {p \in {ReadmeReferencePlan} : \A i \in 1..Len(p) : p[i] \in ids}

\* C2: whenever some valid plan exists, the plan findPlan returns is valid and
\* its accumulated cost is no greater than that of any valid plan (here: of any
\* valid reference plan over the registered actions).
C2_Optimal ==
  Returned =>
    \A p \in ReferencePlans :
      ValidPlan(initialState, goal, p) =>
        /\ ValidPlan(initialState, goal, result)
        /\ PlanCost(initialState, result) <= PlanCost(initialState, p)

(***************************************************************************)
(* C3: actions without preconditions, one of which meets the goal alone.   *)
(***************************************************************************)
RegisteredIds == {actions[i] : i \in 1..Len(actions)}

\* the registered actions whose effects alone turn initialState into a goal state
SingleSolvers ==
  {a \in RegisteredIds :
     SatisfiesGoal(ApplyEffects(initialState, ActionPool[a].effects), goal)}

\* the case C3 is about: no registered action has preconditions, the initial
\* state does not meet the goal, and some single action does
NoPreconditionsCase ==
  /\ Returned
  /\ \A a \in RegisteredIds : ActionPool[a].preconditions = <<>>
  /\ ~SatisfiesGoal(initialState, goal)
  /\ SingleSolvers # {}

SingleCost(a) == CalculateActionCost(ActionPool[a], initialState)

\* C3 as stated: in that case the returned plan is exactly one action, and that
\* action is a lowest-cost one among the single actions meeting the goal.
C3_SingleActionPlan ==
  NoPreconditionsCase =>
    /\ Len(result) = 1
    /\ result[1] \in SingleSolvers
    /\ \A b \in SingleSolvers : SingleCost(result[1]) <= SingleCost(b)

\* C3 (amended): in that case, when the search ends with its frontier empty,
\* the returned plan is non-empty and valid, its accumulated cost is no greater
\* than the cost of any single action meeting the goal, and when it has exactly
\* one action that action is a lowest-cost single action meeting the goal; a
\* cheaper plan of several actions is preferred to a dearer single action.
C3_NoDearerThanSingle ==
  (NoPreconditionsCase /\ queue = <<>>) =>
    /\ result # <<>>
    /\ ValidPlan(initialState, goal, result)
    /\ \A b \in SingleSolvers : PlanCost(initialState, result) <= SingleCost(b)
    /\ Len(result) = 1 =>
         /\ result[1] \in SingleSolvers
         /\ \A b \in SingleSolvers : SingleCost(result[1]) <= SingleCost(b)

\* two single actions of different cost meet the goal and the cheaper is returned
C3_Witness ==
  /\ NoPreconditionsCase
  /\ queue = <<>>
  /\ Len(result) = 1
  /\ \E b \in SingleSolvers : SingleCost(b) > SingleCost(result[1])

\* a plan of several actions is returned although a single action meets the goal
C3_WitnessSeveral ==
  /\ NoPreconditionsCase
  /\ queue = <<>>
  /\ Len(result) > 1

(***************************************************************************)
(* C4: the README's Quick Start example.                                   *)
(***************************************************************************)
\* findPlan({wood: 0, house: false}, house = true) with CollectWood and
\* BuildHouse registered in that order has returned
QuickStartCase ==
  /\ Returned
  /\ actions = <<1, 2>>
  /\ SameContent(initialState, <<Entry("wood", Num(0)), Entry("house", Bool(FALSE))>>)
  /\ goal = Goal("BuildHouseGoal", <<Cond("house", "", Lit(Bool(TRUE)))>>)

\* C4: in the Quick Start example findPlan returns exactly
\* [CollectWood, CollectWood, BuildHouse], whose accumulated cost is 4.
C4_QuickStart ==
  QuickStartCase =>
    /\ result = <<1, 1, 2>>
    /\ bestCost = Finite(4)
    /\ PlanCost(initialState, result) = 4

C4_Witness ==
  /\ QuickStartCase
  /\ Len(result) = 3
  /\ iterations > 3

(***************************************************************************)
(* C5: findPlan terminates.                                                *)
(***************************************************************************)
\* C5: every findPlan call returns: a search that has entered its loop leaves
\* it, whether its states cycle, repeat or grow without bound.
C5_Terminates == (pc = "loop") ~> (pc = "returned")

\* a search has returned with nodes still on its frontier: only the iteration
\* budget stopped it
C5_Witness ==
  /\ Returned
  /\ iterations = maxIterations
  /\ ~IsEmpty(queue)

(***************************************************************************)
(* C6: an unreachable goal yields the empty plan.                          *)
(***************************************************************************)
\* how many rounds of successors the reachability closure is followed for
ReachRounds == 6

\* the states one eligible registered action away from a state of S
Successors(S) ==
  {ApplyEffects(s, ActionPool[a].effects) :
     <<s, a>> \in {x \in S \X RegisteredIds :
                     CheckPreconditions(x[1], ActionPool[x[2]].preconditions)}}

\* the states reachable from those of S within n rounds
RECURSIVE ReachWithin(_, _)
ReachWithin(S, n) ==
  IF n = 0 \/ Successors(S) \subseteq S
  THEN S
  ELSE ReachWithin(S \cup Successors(S), n - 1)

Reachable == ReachWithin({initialState}, ReachRounds)

\* the reachable states are all found, and none satisfies the goal
ClosedWithoutGoal ==
  /\ Successors(Reachable) \subseteq Reachable
  /\ \A s \in Reachable : ~SatisfiesGoal(s, goal)

\* some goal condition fails in the initial state and no registered action
\* has an effect on its key (a condition with a literal value)
GoalKeyNeverWritten ==
  \E i \in 1..Len(goal.conditions) :
    /\ ~IsFunction(goal.conditions[i].value)
    /\ ~CheckPrecondition(initialState, goal.conditions[i])
    /\ \A a \in RegisteredIds : \A j \in 1..Len(ActionPool[a].effects) :
         ActionPool[a].effects[j].key # goal.conditions[i].key

GoalUnreachable == ClosedWithoutGoal \/ GoalKeyNeverWritten

\* C6: when no state satisfying the goal is reachable from the initial state
\* through eligible actions, findPlan returns the empty sequence.
C6_UnreachableEmpty ==
  (Returned /\ GoalUnreachable) => result = <<>>

\* an unreachable goal between states that cycle: the search expanded actions
\* and the cycle guard cut a state off
C6_Witness ==
  /\ Returned
  /\ ClosedWithoutGoal
  /\ Cardinality(Reachable) > 1
  /\ \E h \in DOMAIN visited : visited[h] > maxVisits

\* an unreachable goal among states that grow without bound: the budget ended
\* the search
C6_WitnessBudget ==
  /\ Returned
  /\ GoalKeyNeverWritten
  /\ iterations = maxIterations

(***************************************************************************)
(* C7: resource-consumption gating.                                        *)
(***************************************************************************)
\* whether the last write to key so far was a reduction of a number, after
\* effects e.. of an action applied in turn from state
RECURSIVE ReducedByEffects(_, _, _, _, _)
ReducedByEffects(state, effects, e, key, reduced) ==
  IF e > Len(effects)
  THEN reduced
  ELSE LET prevValue == Get(state, key)
           value == Eval(effects[e].value, state)
           after == Put(state, effects[e].key, value)
       IN ReducedByEffects(after, effects, e + 1, key,
            IF effects[e].key = key /\ IsNumberType(value) /\ IsNumberType(prevValue)
            THEN JsLess(value, prevValue)
            ELSE reduced)

\* whether, replaying actions j..n of plan from state, the last write to key
\* was a reduction
RECURSIVE LastWriteReduced(_, _, _, _, _, _)
LastWriteReduced(state, plan, j, n, key, reduced) ==
  IF j > n
  THEN reduced
  ELSE LastWriteReduced(ApplyEffects(state, ActionPool[plan[j]].effects), plan,
                        j + 1, n, key,
                        ReducedByEffects(state, ActionPool[plan[j]].effects, 1,
                                         key, reduced))

\* the action at position i of plan has a greaterThanOrEqual precondition on a
\* resource key whose last write before i was a reduction
PlacedOnConsumed(init, plan, i) ==
  \E c \in 1..Len(ActionPool[plan[i]].preconditions) :
    LET precond == ActionPool[plan[i]].preconditions[c]
    IN /\ precond.key \in resourceKeys
       /\ precond.operator = "greaterThanOrEqual"
       /\ LastWriteReduced(init, plan, 1, i - 1, precond.key, FALSE)

\* findPlan({resources: 0, processedResources: 0}, processedResources = 2) with
\* CollectResources and ProcessResources registered and 'resources' marked
SequentialDependentCase ==
  /\ Returned
  /\ actions = <<3, 4>>
  /\ resourceKeys = {"resources"}
  /\ SameContent(initialState,
                 <<Entry("resources", Num(0)), Entry("processedResources", Num(0))>>)
  /\ goal.conditions = <<Cond("processedResources", "", Lit(Num(2)))>>

LastLogged == execLog[Len(execLog)]

\* executePlan has resolved after an execute operation threw or rejected
FailedRun ==
  /\ apc = "idle"
  /\ execLog # <<>>
  /\ LastLogged[1] = "fail"

\* C8: when an execute operation throws or rejects, executePlan resolves to
\* false and the world state is, key for key, the one executePlan was invoked
\* with: no effect of an already-applied action remains.
C8_Rollback ==
  FailedRun =>
    /\ agentResult = "false"
    /\ SameContent(worldState, stateAtCall)

\* the failure came after an earlier action of the plan had changed the state
C8_Witness ==
  /\ FailedRun
  /\ LastLogged[2] > 1
  /\ ~SameContent(UpdateWorldState(stateAtCall, ActionPool[currentPlan[1]]),
                  stateAtCall)

\* the positions of the log entries of one kind, in log order
LoggedAt(kind) ==
  LET at == SelectSeq([k \in 1..Len(execLog) |-> k],
                      LAMBDA k : execLog[k][1] = kind)
  IN [j \in 1..Len(at) |-> execLog[at[j]][2]]

\* the world state after the first n actions of plan were folded into state
RECURSIVE FoldedInto(_, _, _)
FoldedInto(state, plan, n) ==
  IF n = 0
  THEN state
  ELSE UpdateWorldState(FoldedInto(state, plan, n - 1), ActionPool[plan[n]])

Executing == apc \in {"running", "awaiting"}

\* C9: actions are processed in plan order; an action's execute operation
\* completes before its effects are folded into the world state, the next
\* operation starts only after that, at most one operation is in flight, and
\* nothing is executed or applied after a failure.
C9_Sequential ==
  /\ \A k \in 1..Len(execLog) :
       LET kind == execLog[k][1]
           i == execLog[k][2]
       IN /\ i \in 1..Len(currentPlan)
          /\ kind = "start" =>
               /\ ActionPool[currentPlan[i]].execute
               /\ k > 1 => execLog[k - 1] = <<"apply", i - 1>>
               /\ k = 1 => i = 1
               /\ k < Len(execLog) => execLog[k + 1] \in {<<"end", i>>, <<"fail", i>>}
          /\ kind = "end" =>
               /\ k > 1 /\ execLog[k - 1] = <<"start", i>>
               /\ k < Len(execLog) /\ execLog[k + 1] = <<"apply", i>>
          /\ kind = "apply" =>
               /\ ActionPool[currentPlan[i]].execute =>
                    k > 1 /\ execLog[k - 1] = <<"end", i>>
               /\ ~ActionPool[currentPlan[i]].execute =>
                    IF k = 1 THEN i = 1 ELSE execLog[k - 1] = <<"apply", i - 1>>
          /\ kind = "fail" =>
               /\ k = Len(execLog)
               /\ k > 1 /\ execLog[k - 1] = <<"start", i>>
  /\ LoggedAt("apply") = [j \in 1..Len(LoggedAt("apply")) |-> j]
  /\ Len(LoggedAt("start")) - Len(LoggedAt("end")) - Len(LoggedAt("fail"))
       = IF apc = "awaiting" THEN 1 ELSE 0
  /\ Executing =>
       /\ idx = Len(LoggedAt("apply")) + 1
       /\ worldState = FoldedInto(stateAtCall, currentPlan, idx - 1)
  /\ (apc = "idle" /\ agentResult = "true") =>
       /\ Len(LoggedAt("apply")) = Len(currentPlan)
       /\ worldState = FoldedInto(stateAtCall, currentPlan, Len(currentPlan))

\* a plan with several execute operations has run to its end
C9_Witness ==
  /\ apc = "idle"
  /\ agentResult = "true"
  /\ Len(LoggedAt("start")) >= 2
  /\ Len(LoggedAt("end")) = Len(LoggedAt("start"))

(***************************************************************************)
(* C10: the frame of findPlan.                                             *)
(***************************************************************************)
\* C10: no step of a findPlan call changes the caller's initialState object,
\* the registered action list or the resource-key set, and a resource key,
\* once marked, stays marked from search to search until
\* clearResourceTracking is called.
C10_Frame ==
  [][/\ pc = "loop" =>
          /\ initialState' = initialState
          /\ actions' = actions
          /\ resourceKeys' = resourceKeys
     /\ ~(resourceKeys \subseteq resourceKeys') => ClearResourceTracking]_vars

\* a search with a marked resource key has returned a plan whose first action
\* changes the state it is applied to
C10_Witness ==
  /\ Returned
  /\ resourceKeys # {}
  /\ result # <<>>
  /\ ~SameContent(StateAfter(initialState, result, 1), initialState)


(***************************************************************************)
(* C11: raising one action's cost never lowers the cost of the plan.       *)
(***************************************************************************)
\* `after` is `before` with the cost of exactly one action raised
OneCostRaised(before, after) ==
  /\ Len(after) = Len(before)
  /\ \E i \in DOMAIN before :
       /\ after[i] \in DearerVariants(before[i])
       /\ \A j \in DOMAIN before : j # i => after[j] = before[j]

\* the second call has returned, and its search differed from the kept one
\* in the higher cost of one action only
RaisedCostCase ==
  /\ Returned
  /\ kept.kept
  /\ OneCostRaised(kept.actions, actions)
  /\ resourceKeys = kept.resourceKeys
  /\ SameContent(initialState, kept.initialState)
  /\ goal = kept.goal

\* C11: when two searches differ only in that one registered action has a
\* higher cost in the second, the total cost of the second returned plan is
\* not lower than that of the first.
C11_Monotone ==
  RaisedCostCase =>
    PlanCost(initialState, result) >= PlanCost(kept.initialState, kept.result)


(***************************************************************************)
(* C12: the plan the README states for its Complex Planning example.       *)
(***************************************************************************)
\* README: [GatherWood, GatherStone, GatherStone, CraftPickaxe, GatherStone,
\* GatherStone, GatherStone, BuildFurnace, MineOre, SmeltIron]
ReadmeStatedPlan == <<20, 21, 21, 19, 21, 21, 21, 23, 18, 22>>

\* findPlan has returned from the README's call: the six actions in the
\* README's order, every resource 0 and no tool, goal iron = 1
ReadmeCase ==
  /\ Returned
  /\ actions = ReadmeActions
  /\ resourceKeys = {}
  /\ \A k \in {"wood", "stone", "ore", "iron"} : Get(initialState, k) = Num(0)
  /\ \A k \in {"hasPickaxe", "hasFurnace"} : Get(initialState, k) = Bool(FALSE)
  /\ goal.conditions = <<Cond("iron", "", Lit(Num(1)))>>

\* C12: for the README's Complex Planning action set, the initial state with
\* all resources 0 and no tools, and the goal iron = 1, findPlan returns the
\* ten-action plan the README states.
C12_ReadmePlan == ReadmeCase => result = ReadmeStatedPlan


(***************************************************************************)
(* C13: the iteration limit.                                               *)
(***************************************************************************)
\* Planner.test 'should handle maximum iterations limit': only value + 1 is
\* registered, value starts at 0, and the goal is value > 2000
BeyondBudgetCase ==
  /\ Returned
  /\ Len(actions) > 0
  /\ \A i \in DOMAIN actions : actions[i] = 11
  /\ SameContent(initialState, <<Entry("value", Num(0))>>)
  /\ goal.conditions = <<Cond("value", "greaterThan", Lit(Num(2000)))>>

\* C13: one findPlan call removes at most 1000 nodes from the frontier, every
\* returned plan has fewer than 1000 actions, and when every action sequence
\* that satisfies the goal is longer than the budget allows (value + 1 from 0
\* with goal value > 2000) findPlan returns the empty sequence.
C13_IterationLimit ==
  /\ iterations <= maxIterations
  /\ Returned => Len(result) < maxIterations
  /\ BeyondBudgetCase => result = <<>>

\* the budget ended the search for value > 2000 with the frontier not empty
C13_Witness ==
  /\ BeyondBudgetCase
  /\ iterations = maxIterations
  /\ ~IsEmpty(queue)
  /\ result = <<>>


(***************************************************************************)
(* C14: the same call made twice returns the same plan.                    *)
(***************************************************************************)
\* the second call has returned, and it was the kept call made again: the
\* same actions in the same order, the same resource keys, an equal initial
\* state and the same goal
SameCallCase ==
  /\ Returned
  /\ kept.kept
  /\ actions = kept.actions
  /\ resourceKeys = kept.resourceKeys
  /\ SameContent(initialState, kept.initialState)
  /\ goal = kept.goal

\* C14: two findPlan calls with the same actions registered in the same
\* order, the same resource keys, equal initial states and the same goal
\* return the same action sequence, also when they run on the same planner
\* one after the other.
C14_Deterministic == SameCallCase => result = kept.result

\* the same call made twice, returning a plan of several actions
C14_Witness ==
  /\ SameCallCase
  /\ Len(result) >= 2
  /\ result = kept.result


(***************************************************************************)
(* C15: dequeue returns a first item under the comparator.                 *)
(***************************************************************************)
\* the i-th dequeue call returned an item
Successful(i) == ~dequeued[i].returned.undefined

\* n enqueue calls were followed by n dequeue calls, and that is all
DrainedCase ==
  /\ Len(dequeued) = Len(enqueued)
  /\ \A i \in DOMAIN dequeued : dequeued[i].enqueues = Len(enqueued)

\* a dequeue call on a queue that held something has just returned
DequeuedNow ==
  /\ Len(dequeued') = Len(dequeued) + 1
  /\ ~IsEmpty(queue)

\* C15: after any interleaving of enqueue and dequeue calls, dequeue removes
\* and returns an item of the queue that no other item in the queue precedes
\* under the comparator; n enqueues followed by n dequeues yield the items in
\* non-decreasing comparator order.
C15_Minimum ==
  /\ [][DequeuedNow =>
          LET x == dequeued'[Len(dequeued')].returned
          IN /\ ~x.undefined
             /\ \E i \in DOMAIN queue : queue[i] = x.item
             /\ Len(queue') = Len(queue) - 1
             /\ \A i \in DOMAIN queue' : Compare(queue'[i], x.item) >= 0]_vars
  /\ [](DrainedCase =>
          /\ \A i \in DOMAIN dequeued : Successful(i)
          /\ \A i \in 1..(Len(dequeued) - 1) :
               Compare(dequeued[i].returned.item, dequeued[i + 1].returned.item) <= 0)

\* three items enqueued out of order and then dequeued in order
C15_Witness ==
  /\ DrainedCase
  /\ Len(enqueued) = 3
  /\ Compare(enqueued[1], enqueued[2]) > 0
  /\ Compare(enqueued[3], enqueued[1]) < 0
  /\ \A i \in DOMAIN dequeued : Successful(i)


(***************************************************************************)
(* C16: the empty queue.                                                   *)
(***************************************************************************)
\* how many of the dequeue calls before the i-th returned an item
RECURSIVE SuccessfulBefore(_)
SuccessfulBefore(i) ==
  IF i <= 1
  THEN 0
  ELSE SuccessfulBefore(i - 1) + (IF Successful(i - 1) THEN 1 ELSE 0)

\* C16: isEmpty() is true exactly when as many items were enqueued as
\* successfully dequeued; a dequeue call on an empty queue returns undefined
\* and leaves the queue empty and usable: an enqueue and a dequeue straight
\* after it return the item enqueued.
C16_EmptyQueue ==
  /\ IsEmpty(queue) <=> Len(enqueued) = SuccessfulBefore(Len(dequeued) + 1)
  /\ \A i \in DOMAIN dequeued :
       dequeued[i].enqueues = SuccessfulBefore(i) =>
         /\ ~Successful(i)
         /\ (i = Len(dequeued) /\ Len(enqueued) = dequeued[i].enqueues) =>
              IsEmpty(queue)
         /\ (i < Len(dequeued) /\ dequeued[i + 1].enqueues = dequeued[i].enqueues + 1) =>
              /\ Successful(i + 1)
              /\ dequeued[i + 1].returned.item = enqueued[dequeued[i + 1].enqueues]

\* dequeue on the empty queue returned undefined, and the enqueue and dequeue
\* that followed returned the item
C16_Witness ==
  \E i \in DOMAIN dequeued :
    /\ ~Successful(i)
    /\ i < Len(dequeued)
    /\ dequeued[i + 1].enqueues = dequeued[i].enqueues + 1
    /\ Successful(i + 1)
    /\ IsEmpty(queue)
    /\ Len(enqueued) >= 2


(***************************************************************************)
(* C17: the queue neither drops nor merges items.                          *)
(***************************************************************************)
\* how often item x occurs in a sequence of items
Occurrences(items, x) == Cardinality({i \in DOMAIN items : items[i] = x})

\* how often dequeue has returned item x
TimesDequeued(x) ==
  Cardinality({i \in DOMAIN dequeued : Successful(i) /\ dequeued[i].returned.item = x})

\* C17: at every point the items the queue holds are, as a multiset, the
\* items enqueued less the items dequeued; an item equal to one already held
\* is held twice and both are dequeued later.
C17_NoLoss ==
  \A x \in QueueItems :
    Occurrences(queue, x) = Occurrences(enqueued, x) - TimesDequeued(x)

\* an item enqueued twice and dequeued twice, an item they precede still held
C17_Witness ==
  \E x \in QueueItems :
    /\ Occurrences(enqueued, x) = 2
    /\ TimesDequeued(x) = 2
    /\ Len(queue) = 1
    /\ Compare(x, queue[1]) < 0


(***************************************************************************)
(* C18: the action registry.                                               *)
(***************************************************************************)
\* the positions of `before` whose action is not named name
OtherPositions(before, name) ==
  {i \in DOMAIN before : ActionPool[before[i]].name # name}

\* `after` is `before` without every action named name: none of that name
\* is left, and every other action is there, in the order it had
RemovedExactly(before, after, name) ==
  LET others == OtherPositions(before, name)
  IN /\ Len(after) = Cardinality(others)
     /\ \A i \in others : after[Cardinality({j \in others : j <= i})] = before[i]
     /\ (others = DOMAIN before) => after = before

\* C18: addAction appends the action to the end of the registered list, also
\* when an action of that name is registered already; removeAction(name)
\* removes every registered action of that name and no other, the remaining
\* ones keeping their relative order; removing a name that is not registered
\* changes nothing.
C18_Registry ==
  [][/\ \A id \in DOMAIN ActionPool :
          AddAction(id) =>
            /\ Len(actions') = Len(actions) + 1
            /\ actions'[Len(actions')] = id
            /\ \A i \in DOMAIN actions : actions'[i] = actions[i]
     /\ \A id \in DOMAIN ActionPool :
          RemoveAction(ActionPool[id].name) =>
            RemovedExactly(actions, actions', ActionPool[id].name)]_vars

\* IncrementValue is gone from among the two actions named RangeAction, which
\* are left in their order
C18_Witness ==
  /\ scenario = 10
  /\ actions = <<25, 24>>


(***************************************************************************)
(* C19: the cycle guard.                                                   *)
(***************************************************************************)
\* how many expansions the visited map has counted for the hashes in S
RECURSIVE ExpansionsOf(_)
ExpansionsOf(S) ==
  IF S = {}
  THEN 0
  ELSE LET h == CHOOSE x \in S : TRUE
       IN visited[h] + ExpansionsOf(S \ {h})

\* an iteration of the loop is taking a node that does not satisfy the goal
\* off the queue
NonGoalIteration ==
  /\ pc = "loop"
  /\ iterations' = iterations + 1
  /\ ~SatisfiesGoal(Head(queue).state, goal)

\* C19 as stated: within one findPlan call no state hash is expanded more
\* than 10 times.
C19_AtMostTen == \A h \in DOMAIN visited : visited[h] <= maxVisits

\* C19, amended: within one findPlan call no state hash is expanded more than
\* 11 times; a dequeued node whose hash has been expanded more than 10 times
\* already is discarded without generating successors, and one whose hash has
\* been expanded 10 times or fewer is expanded.
C19_AtMostEleven ==
  /\ [](\A h \in DOMAIN visited : visited[h] <= maxVisits + 1)
  /\ [][NonGoalIteration =>
          \A stateHash \in {GetStateHash(Head(queue).state)} :
            \A visitCount \in {VisitCount(visited, stateHash)} :
              IF visitCount > maxVisits
              THEN queue' = Tail(queue) /\ visited' = visited
              ELSE visited' = SetVisit(visited, stateHash, visitCount + 1)]_vars

\* a search in which no goal node was dequeued has returned: a hash was
\* expanded 11 times, and nodes were discarded after that
C19_Witness ==
  /\ Returned
  /\ bestPlan.null
  /\ \E h \in DOMAIN visited : visited[h] = maxVisits + 1
  /\ iterations > ExpansionsOf(DOMAIN visited)


(***************************************************************************)
(* C20: what the iteration budget counts.                                  *)
(***************************************************************************)
\* the loop has run an iteration: a node has left the queue
LoopIteration ==
  /\ pc = "loop"
  /\ pc' = "loop"
  /\ ~IsEmpty(queue)

\* C20 as stated: the budget is counted in expansions, so an iteration that
\* expands no node (its node satisfies the goal, or the cycle guard skips it)
\* does not consume budget.
C20_CountedInExpansions ==
  [][(LoopIteration /\ visited' = visited) => iterations' = iterations]_vars

\* C20, amended: the budget is counted in dequeued nodes: every iteration,
\* whether its node satisfies the goal, is skipped by the cycle guard or is
\* expanded, consumes one unit, and the loop ends only when the frontier is
\* empty or 1000 nodes have been dequeued.
C20_CountedInDequeues ==
  /\ [][LoopIteration => iterations' = iterations + 1]_vars
  /\ [](Returned => (IsEmpty(queue) \/ iterations = maxIterations))

\* the budget ended a search with nodes left in the frontier after fewer than
\* 1000 expansions, the cycle guard having discarded nodes
C20_Witness ==
  /\ Returned
  /\ ~IsEmpty(queue)
  /\ iterations = maxIterations
  /\ \E h \in DOMAIN visited : visited[h] > maxVisits
  /\ ExpansionsOf(DOMAIN visited) < maxIterations


(***************************************************************************)
(* C21: the bookkeeping of the best candidate.                             *)
(***************************************************************************)
\* the positions of items whose node carries the action list path
NodesOf(items, path) ==
  {i \in DOMAIN items :
     Len(items[i].actions) = Len(path) /\ items[i].actions = path}

\* the nodes with action list path that the iteration under way has added
EnqueuedNow(path) ==
  Cardinality(NodesOf(queue', path)) > Cardinality(NodesOf(Tail(queue), path))

\* C21: during a search the best cost only ever decreases strictly; a
\* candidate is recorded only from a dequeued node whose state satisfies the
\* goal, and only when its cost is below the best cost, so the candidate held
\* is the cheapest goal node dequeued so far, the earliest among equal costs;
\* no successor whose accumulated cost is greater than or equal to the best
\* cost is enqueued; and findPlan returns the candidate it holds.
C21_Bookkeeping ==
  /\ [][LoopIteration =>
          \A current \in {Head(queue)} :
            /\ bestCost' # bestCost =>
                 ~bestCost'.inf /\ LessThanBest(bestCost'.n, bestCost)
            /\ IF SatisfiesGoal(current.state, goal) /\ LessThanBest(current.cost, bestCost)
               THEN bestPlan' = Plan(current.actions) /\ bestCost' = Finite(current.cost)
               ELSE bestPlan' = bestPlan /\ bestCost' = bestCost
            /\ \A id \in RegisteredIds :
                 \A path \in {Append(current.actions, id)} :
                   EnqueuedNow(path) =>
                     \A i \in NodesOf(queue', path) :
                       LessThanBest(queue'[i].cost, bestCost)]_vars
  /\ [][(pc = "loop" /\ pc' = "returned") =>
          result' = IF bestPlan.null THEN <<>> ELSE bestPlan.actions]_vars

\* a search has ended with the frontier empty in which at least two goal
\* nodes were dequeued (no node was skipped, and two iterations or more
\* expanded nothing), and the plan of one of them is returned
C21_Witness ==
  /\ Returned
  /\ IsEmpty(queue)
  /\ ~bestPlan.null
  /\ result = bestPlan.actions
  /\ \A h \in DOMAIN visited : visited[h] <= maxVisits
  /\ iterations >= ExpansionsOf(DOMAIN visited) + 2


(***************************************************************************)
(* C22: what a successor is charged for its action.                        *)
(***************************************************************************)
\* the literal cost of action id, or its cost function applied to the state
\* that the effects of the action make of state
PostEffectCharge(id, state) ==
  LET action == ActionPool[id]
  IN IF IsFunction(action.cost)
     THEN Eval(action.cost, ApplyEffects(state, action.effects)).n
     ELSE action.cost.v.n

\* C22: the cost added to a successor node's accumulated cost is the literal
\* for a literal cost, and for a function cost the function applied to the
\* state obtained by applying the action's effects to the node's state.
C22_PostEffectCost ==
  [][LoopIteration =>
       \A current \in {Head(queue)} :
         \A id \in RegisteredIds :
           \A path \in {Append(current.actions, id)} :
             EnqueuedNow(path) =>
               \A i \in NodesOf(queue', path) :
                 queue'[i].cost = current.cost + PostEffectCharge(id, current.state)]_vars

\* Prepare and then the DynamicCostAction that recharges: its cost function
\* gives 5 on the state it is applied to and 1 on the state it leaves, and
\* the plan was charged 1 + 1
C22_Witness ==
  /\ Returned
  /\ result = <<26, 28>>
  /\ bestCost = Finite(2)
  /\ Eval(ActionPool[28].cost, StateAfter(initialState, result, 1)) = Num(5)


(***************************************************************************)
(* C23: the cost that pruning compares and the cost that orders the queue. *)
(***************************************************************************)
\* the registered actions eligible on state, in registration order
EligibleIds(state) ==
  {actions[i] : i \in {j \in DOMAIN actions :
                         CheckPreconditions(state, ActionPool[actions[j]].preconditions)}}

\* the cost function of action id applied to state as it is, or the literal
PreEffectCharge(id, state) == Eval(ActionPool[id].cost, state).n

\* C23 as stated: the accumulated cost compared against the best cost for
\* pruning is computed with the cost function applied to the current
\* (pre-effect) state: a successor is enqueued exactly when that cost is
\* below the best cost.
C23_PrunedOnPreEffectCost ==
  [][(LoopIteration /\ visited' # visited) =>
       \A current \in {Head(queue)} :
         \A id \in EligibleIds(current.state) :
           EnqueuedNow(Append(current.actions, id)) <=>
             LessThanBest(current.cost + PreEffectCharge(id, current.state), bestCost)]_vars

\* C23, amended: a function-valued cost is evaluated once per successor, on
\* the post-effect state; the accumulated cost so obtained is both the one
\* compared against the best cost for pruning and the one that enters the
\* successor's cost and queue priority.
C23_OneEvaluation ==
  [][(LoopIteration /\ visited' # visited) =>
       \A current \in {Head(queue)} :
         \A id \in EligibleIds(current.state) :
           \A path \in {Append(current.actions, id)} :
             \A totalCost \in {current.cost + PostEffectCharge(id, current.state)} :
               /\ EnqueuedNow(path) <=> LessThanBest(totalCost, bestCost)
               /\ \A i \in NodesOf(queue', path) :
                    /\ queue'[i].cost = totalCost
                    /\ queue'[i].priority =
                         totalCost + ProjectFutureCosts(queue'[i].state, goal)]_vars

\* [Recharge, DynamicCostAction] was found at cost 3, then the successor of
\* Prepare by DynamicCostAction was enqueued (5 on the state before: 1 + 5 is
\* not below 3; 1 on the state after: 1 + 1 is), and its plan is returned
C23_Witness ==
  /\ Returned
  /\ result = <<26, 28>>
  /\ bestCost = Finite(2)
  /\ \E i \in DOMAIN actions : actions[i] = 27
  /\ iterations > ExpansionsOf(DOMAIN visited) + 1


(***************************************************************************)
(* C24: the forward estimate as a minimum over the goal-marker actions.    *)
(***************************************************************************)
\* the projections of the registered goal-marker actions on state
Projections(state) ==
  {ActionProjection(state, ActionPool[id]) :
     id \in {a \in RegisteredIds : IsGoalAction(ActionPool[a])}}

\* the least of them, 0 when there is none
MinEstimate(state) ==
  LET terms == Projections(state)
  IN IF terms = {} THEN 0 ELSE CHOOSE m \in terms : \A t \in terms : m <= t

\* C24: the forward estimate that a successor's priority adds to its cost is
\* the minimum, over the registered actions with an effect goal := true, of
\* the action's projection (its threshold gaps at 5 units a step, plus its
\* cost), whatever the registration order, and 0 when no action qualifies.
C24_EstimateIsMinimum ==
  [][(LoopIteration /\ visited' # visited) =>
       \A current \in {Head(queue)} :
         \A id \in RegisteredIds :
           \A path \in {Append(current.actions, id)} :
             EnqueuedNow(path) =>
               \A i \in NodesOf(queue', path) :
                 queue'[i].priority =
                   queue'[i].cost + MinEstimate(queue'[i].state)]_vars


(***************************************************************************)
(* C25: the state a goal-marker action's cost function is estimated on.    *)
(***************************************************************************)
\* state with the key of every threshold precondition that has a gap raised
\* to that precondition's threshold, and every other key as it is
RECURSIVE RaisedFrom(_, _, _, _)
RaisedFrom(state, raised, preconditions, i) ==
  IF i > Len(preconditions)
  THEN raised
  ELSE LET precond == preconditions[i]
           current == ToNumber(CurrentOf(state, precond))
           target == TargetOf(precond)
           reached == ToNumber(CurrentOf(raised, precond))
       IN RaisedFrom(state,
                     IF IsThreshold(precond) /\ JsLessEq(current, target)
                     THEN Put(raised, precond.key, Num(MaxOf(reached.n, target.n)))
                     ELSE raised,
                     preconditions, i + 1)

RaisedState(state, action) == RaisedFrom(state, state, action.preconditions, 1)

\* the gap steps of action on state, plus its cost on the raised state
CostOnRaisedState(state, action) ==
  ProjectPreconditions(state, action.preconditions, 1, [proj |-> 0, req |-> 0]).proj
    + CostOf(action.cost, RaisedState(state, action))

\* C25: where one goal-marker action is registered and its cost is a
\* function, the forward estimate of a successor is that action's gap steps
\* plus its cost function applied to the successor's state with the gap keys
\* raised to their thresholds and no other key changed.
C25_CostOnRaisedState ==
  [][(LoopIteration /\ visited' # visited /\ Len(GoalActions) = 1) =>
       \A current \in {Head(queue)} :
         \A id \in RegisteredIds :
           \A path \in {Append(current.actions, id)} :
             (EnqueuedNow(path) /\ IsFunction(ActionPool[GoalActions[1]].cost)) =>
               \A i \in NodesOf(queue', path) :
                 queue'[i].priority =
                   queue'[i].cost
                     + CostOnRaisedState(queue'[i].state, ActionPool[GoalActions[1]])]_vars


(***************************************************************************)
(* C26: the order in which the frontier gives up its nodes.                *)
(***************************************************************************)
\* the node that this iteration dequeues goes before node: its priority is
\* lower, or equal with a progress value that is not smaller
GoesBefore(head, node) ==
  \/ head.priority < node.priority
  \/ /\ head.priority = node.priority
     /\ FracCompare(EvaluateStateProgress(head.state),
                    EvaluateStateProgress(node.state)) >= 0

FlagSet(state, key) == Truthy(Get(state, ConsumedKey(key)))

\* the value of key is a number in both states and larger in the later one
Increased(before, after, key) ==
  /\ Get(before, key).t = "number"
  /\ Get(after, key).t = "number"
  /\ Get(after, key).n > Get(before, key).n

\* C27: a consumed flag that is set in a node's state is still set in the
\* state of every successor whose action did not increase the key's numeric
\* value (writing the same value back included); only an increase clears it.
C27_ClearedOnlyByIncrease ==
  [][(LoopIteration /\ visited' # visited) =>
       \A current \in {Head(queue)} :
         \A id \in RegisteredIds :
           \A path \in {Append(current.actions, id)} :
             EnqueuedNow(path) =>
               \A i \in NodesOf(queue', path) :
                 \A key \in resourceKeys :
                   (FlagSet(current.state, key)
                      /\ ~Increased(current.state, queue'[i].state, key))
                     => FlagSet(queue'[i].state, key)]_vars


(***************************************************************************)
(* C28: the effects of one action, folded in list order.                   *)
(***************************************************************************)
\* state after the first n effects, each value computed on the state that
\* the effects before it have made, the consumed flags left aside
RECURSIVE EffectsFolded(_, _, _)
EffectsFolded(state, effects, n) ==
  IF n = 0
  THEN state
  ELSE LET before == EffectsFolded(state, effects, n - 1)
       IN Put(before, effects[n].key, Eval(effects[n].value, before))

\* the keys of state that are no consumed flags
PlainKeys(state) == {k \in Keys(state) : ~EndsWithConsumed(k)}

\* C28: the state of every successor holds, for each plain key, the value
\* that folding the action's effects in list order gives, every function
\* reading what the earlier effects of the same action wrote; and applying
\* effects to the caller's initialState (the seed node's state) leaves it as
\* it was.
C28_EffectFolding ==
  [][(LoopIteration /\ visited' # visited) =>
       /\ initialState' = initialState
       /\ \A current \in {Head(queue)} :
            \A id \in RegisteredIds :
              \A path \in {Append(current.actions, id)} :
                EnqueuedNow(path) =>
                  \A folded \in {EffectsFolded(current.state, ActionPool[id].effects,
                                               Len(ActionPool[id].effects))} :
                    \A i \in NodesOf(queue', path) :
                      /\ PlainKeys(queue'[i].state) = PlainKeys(folded)
                      /\ \A k \in PlainKeys(folded) :
                           Get(queue'[i].state, k) = Get(folded, k)]_vars

\* DependentEffects (baseValue := 10, multiplier := 2, result := baseValue *
\* multiplier) was applied to {baseValue: 0, multiplier: 1, result: 0}: the
\* result is 20, not the product 0 of the values before, and the caller's
\* state is as it was
C28_Witness ==
  /\ Returned
  /\ \E a \in DOMAIN ActionPool :
       ActionPool[a].name = "DependentEffects" /\ result = <<a>>
  /\ Get(initialState, "baseValue") = Num(0)
  /\ Get(initialState, "result") = Num(0)
  /\ Get(StateAfter(initialState, result, 1), "result") = Num(20)


(***************************************************************************)
(* C29: the world state of the agent and the final state of the planner.   *)
(***************************************************************************)
\* executePlan has resolved to true
SucceededRun == apc = "idle" /\ agentResult = "true"

\* the state the planner derived for the plan of the last executePlan call
PlannedState == StateAfter(stateAtCall, currentPlan, Len(currentPlan))

\* C29: when executePlan has resolved to true, the agent's world state is,
\* key for key, the state the planner derived for the plan (the effects of
\* each action folded left to right by applyEffects from the state
\* executePlan was invoked with), and it satisfies every goal that the
\* planner's final state satisfies.
C29_Agreement ==
  SucceededRun =>
    /\ SameContent(worldState, PlannedState)
    /\ \A g \in Domains[scenario].goals :
         SatisfiesGoal(PlannedState, g) => SatisfiesGoal(worldState, g)


(***************************************************************************)
(* C30: nodes that satisfy the goal are not expanded.                      *)
(***************************************************************************)
\* the state that the first n actions of the returned plan lead to
PrefixState(n) == StateAfter(initialState, result, n)

\* C30: an iteration that dequeues a node whose state satisfies the goal
\* enqueues nothing and counts no expansion, and no proper prefix of a
\* returned plan leads from the initial state to a state that satisfies the
\* goal.
C30_GoalNodesTerminal ==
  /\ [][(LoopIteration /\ SatisfiesGoal(Head(queue).state, goal)) =>
          /\ queue' = Tail(queue)
          /\ visited' = visited]_vars
  /\ [](Returned =>
          \A n \in 0..(Len(result) - 1) : ~SatisfiesGoal(PrefixState(n), goal))

\* a plan of three actions or more was returned, and in the state it leads
\* to a registered action is eligible that the search did not go on with
C30_Witness ==
  /\ Returned
  /\ Len(result) >= 3
  /\ SatisfiesGoal(PrefixState(Len(result)), goal)
  /\ ValidActions(PrefixState(Len(result))) # <<>>


(***************************************************************************)
(* C31: which states hold consumed flags.                                  *)
(***************************************************************************)
\* the consumed flags of state: its keys that end in '_consumed'
FlagKeys(state) == {k \in Keys(state) : EndsWithConsumed(k)}

\* every consumed flag of state belongs to a registered resource key and is
\* true
FlagsOfResources(state) ==
  \A f \in FlagKeys(state) :
    /\ \E k \in resourceKeys : f = ConsumedKey(k)
    /\ Get(state, f) = Bool(TRUE)

\* C31: in a search from an initial state without consumed flags, the state
\* of every node of the frontier holds a key k + '_consumed' only for a
\* registered resource key k, with the value true; with no resource key
\* registered no state holds such a key.
C31_FlagsOnlyForResources ==
  (pc = "loop" /\ FlagKeys(initialState) = {}) =>
    \A i \in DOMAIN queue :
      /\ FlagsOfResources(queue[i].state)
      /\ resourceKeys = {} => FlagKeys(queue[i].state) = {}

\* a frontier with a node whose state holds the flag of a resource key, in a
\* search whose initial state holds none
C31_Witness ==
  /\ pc = "loop"
  /\ FlagKeys(initialState) = {}
  /\ \E i \in DOMAIN queue :
       \E k \in resourceKeys : FlagSet(queue[i].state, k)


(***************************************************************************)
(* C32: an exhausted frontier and the reachability of the goal.            *)
(***************************************************************************)
\* findPlan has returned because the frontier was empty, with budget left
\* and no candidate recorded
ExhaustedWithoutPlan ==
  /\ Returned
  /\ IsEmpty(queue)
  /\ iterations < maxIterations
  /\ bestPlan.null

\* C32: when findPlan ends on an empty frontier before the iteration budget
\* is used up and without a recorded candidate, no state that satisfies the
\* goal is reachable from the initial state through eligible actions (here:
\* within ReachRounds actions).
C32_CompleteWithinBudget ==
  ExhaustedWithoutPlan => \A s \in Reachable : ~SatisfiesGoal(s, goal)


(***************************************************************************)
(* C33: a goal that the initial state satisfies already.                   *)
(***************************************************************************)
\* findPlan has returned to executePlan from a call whose initial state
\* satisfied the goal
SatisfiedAtCall ==
  /\ apc = "planning"
  /\ Returned
  /\ SatisfiesGoal(initialState, goal)

\* C33: when the initial state satisfies every goal condition, findPlan
\* returns the empty sequence, recorded as a candidate of cost 0 (the value
\* it also returns when it found no plan), and executePlan then resolves to
\* false, has started no execute operation and leaves the agent's world state
\* as it was at the call.
C33_GoalAlreadySatisfied ==
  /\ [](SatisfiedAtCall =>
          /\ result = <<>>
          /\ bestPlan = Plan(<<>>)
          /\ bestCost = Finite(0))
  /\ [][SatisfiedAtCall =>
          /\ agentResult' = "false"
          /\ apc' = "idle"
          /\ execLog' = <<>>
          /\ currentPlan' = <<>>
          /\ SameContent(worldState', stateAtCall)]_vars

\* the second executePlan call of an agent that holds an action with an
\* execute operation, for a goal that the first call has achieved: findPlan
\* has returned the empty plan as its candidate
C33_Witness ==
  /\ SatisfiedAtCall
  /\ runs = 2
  /\ result = <<>>
  /\ ~bestPlan.null
  /\ \E a \in RegisteredIds : ActionPool[a].execute

(***************************************************************************)
(* C34: overlapping executePlan invocations on one Agent.                  *)
(***************************************************************************)
\* one of the two invocations started while the other was suspended at an
\* await
Overlapping(i, j) == j \in calls[i].during \/ i \in calls[j].during

\* the keys invocation j has assigned in the world state
KeysWritten(j) ==
  UNION {{ActionPool[calls[j].plan[n]].effects[e].key :
            e \in DOMAIN ActionPool[calls[j].plan[n]].effects} :
         n \in 1..(calls[j].idx - 1)}

\* invocation i fails in this step while invocation j, which overlapped it,
\* has resolved true
RollbackBeside(i, j) ==
  /\ i # j
  /\ Overlapping(i, j)
  /\ calls[j].pos = "true"
  /\ calls[i].pos = "awaiting"
  /\ calls'[i].pos = "false"

\* C34: when two executePlan invocations on one Agent overlap, the failure
\* and rollback of one does not discard the changes committed by the other
\* that completed successfully: every value the successful invocation left
\* in the world state is still there after the rollback.
C34_RollbackKeepsOtherChanges ==
  [][\A i \in Invocations, j \in Invocations :
       RollbackBeside(i, j) =>
         \A k \in KeysWritten(j) :
           Get(worldState, k) = Get(calls[j].left, k) =>
             Get(worldState', k) = Get(calls[j].left, k)]_vars


(***************************************************************************)
(* C35: without goal-marker actions the search is a uniform-cost search.   *)
(***************************************************************************)
\* no registered action has an effect goal := true
NoGoalMarkers == GoalActions = <<>>

\* no registered action is charged a negative cost at a state the search can
\* come to
NonNegativeCosts ==
  \A id \in RegisteredIds : \A s \in Reachable : PostEffectCharge(id, s) >= 0

\* C35: when no registered action has an effect goal := true and all action
\* costs are non-negative, every node's priority equals its accumulated cost,
\* nodes are dequeued in non-decreasing accumulated-cost order (no node left
\* in or added to the frontier is cheaper than the node just dequeued), and
\* the first candidate recorded is never replaced by a later one.
C35_UniformCostOrder ==
  /\ []((pc = "loop" /\ NoGoalMarkers) =>
          \A i \in DOMAIN queue : queue[i].priority = queue[i].cost)
  /\ [][(LoopIteration /\ NoGoalMarkers) =>
          \/ \A i \in DOMAIN queue' : queue'[i].cost >= Head(queue).cost
          \/ ~NonNegativeCosts]_vars
  /\ [][(LoopIteration /\ NoGoalMarkers /\ ~bestPlan.null) =>
          \/ bestPlan' = bestPlan /\ bestCost' = bestCost
          \/ ~NonNegativeCosts]_vars

\* a search without goal markers that holds a candidate while a node as dear
\* as the candidate, whose state satisfies the goal too, waits in the frontier
\* behind nodes of several costs
C35_Witness ==
  /\ pc = "loop"
  /\ NoGoalMarkers
  /\ NonNegativeCosts
  /\ ~bestPlan.null
  /\ bestCost.n > 0
  /\ \E i \in DOMAIN queue :
       /\ SatisfiesGoal(queue[i].state, goal)
       /\ queue[i].cost >= bestCost.n


(***************************************************************************)
(* C36: the order of items that the comparator ranks as equal.             *)
(***************************************************************************)
\* two nodes of equal priority and equal progress (numbers both): the
\* comparator returns 0 for them
EqualRank(a, b) ==
  /\ a.priority = b.priority
  /\ EvaluateStateProgress(a.state)[2] # 0
  /\ EvaluateStateProgress(b.state)[2] # 0
  /\ FracCompare(EvaluateStateProgress(a.state), EvaluateStateProgress(b.state)) = 0

\* where action id was registered
RegisteredAt(id) == CHOOSE m \in DOMAIN actions : actions[m] = id

\* no action is registered twice, so that a node's action list names it
RegisteredOnce == \A m, n \in DOMAIN actions : actions[m] = actions[n] => m = n

\* the action a node was made with
LastAction(node) == node.actions[Len(node.actions)]

\* the positions, after the iteration under way, of the successors it enqueued
NewAt ==
  {n \in DOMAIN queue' :
     \E id \in RegisteredIds : queue'[n].actions = Append(Head(queue).actions, id)}

\* items without those at the positions of N
RECURSIVE Without(_, _, _)
Without(items, N, i) ==
  IF i > Len(items)
  THEN <<>>
  ELSE IF i \in N
       THEN Without(items, N, i + 1)
       ELSE <<items[i]>> \o Without(items, N, i + 1)

\* C36: items that the comparator ranks as equal leave the queue in the order
\* in which they were enqueued, however enqueue and dequeue calls interleave:
\* an iteration of findPlan leaves the nodes the frontier held in the order
\* they had, puts each successor behind every node of equal priority and
\* progress that the frontier held, and puts successors of equal priority and
\* progress in the order in which their actions were registered.
C36_FirstInFirstOut ==
  [][(LoopIteration /\ RegisteredOnce) =>
       \A new \in {NewAt} :
         /\ Without(queue', new, 1) = Tail(queue)
         /\ \A n \in new : \A i \in DOMAIN queue' \ new :
              EqualRank(queue'[i], queue'[n]) => i < n
         /\ \A m \in new : \A n \in new :
              (/\ EqualRank(queue'[m], queue'[n])
               /\ RegisteredAt(LastAction(queue'[m])) < RegisteredAt(LastAction(queue'[n])))
                => m < n]_vars

\* three actions registered in an order other than that of their places in
\* the domain: a successor waits behind a node of equal priority and progress
\* enqueued in an earlier iteration, and two successors of one node, equal in
\* priority and progress, wait side by side
C36_Witness ==
  /\ pc = "loop"
  /\ RegisteredOnce
  /\ \E m \in DOMAIN actions : \E n \in DOMAIN actions : m < n /\ actions[m] > actions[n]
  /\ \E i \in DOMAIN queue : \E j \in DOMAIN queue :
       /\ i < j
       /\ Len(queue[i].actions) < Len(queue[j].actions)
       /\ EqualRank(queue[i], queue[j])
  /\ \E i \in DOMAIN queue : \E j \in DOMAIN queue :
       /\ i < j
       /\ Len(queue[i].actions) = Len(queue[j].actions)
       /\ SubSeq(queue[i].actions, 1, Len(queue[i].actions) - 1)
            = SubSeq(queue[j].actions, 1, Len(queue[j].actions) - 1)
       /\ EqualRank(queue[i], queue[j])


(***************************************************************************)
(* C37: what a frontier node holds.                                        *)
(***************************************************************************)
\* a node holds what its action list makes of the initial state
NodeOfItsActions(node) ==
  /\ node.state = StateAfter(initialState, node.actions, Len(node.actions))
  /\ node.cost = PlanCost(initialState, node.actions)
  /\ node.priority = IF node.actions = <<>>
                     THEN 0
                     ELSE node.cost + ProjectFutureCosts(node.state, goal)

\* C37: every node in the frontier has the state that folding the effects of
\* its action list, left to right, over the initial state gives, the cost
\* that is the sum of the costs charged for the steps of that list, and the
\* priority cost + projectFutureCosts(state), the seed node the priority 0:
\* so it is for the seed node and for every node an iteration adds to those
\* the frontier held.
C37_FrontierNodes ==
  /\ []((pc = "loop" /\ iterations = 0) =>
          /\ Len(queue) = 1
          /\ queue[1].actions = <<>>
          /\ NodeOfItsActions(queue[1]))
  /\ [][LoopIteration =>
          \A n \in DOMAIN queue' :
            \A node \in {queue'[n]} :
              \/ \E i \in 2..Len(queue) : queue[i] = node
              \/ NodeOfItsActions(node)]_vars

\* a frontier node of two or more actions, one of them charged by a cost
\* function, whose state has a forward estimate above 0 that differs from
\* the estimate of the state before its last action
C37_Witness ==
  /\ pc = "loop"
  /\ \E i \in DOMAIN queue :
       /\ Len(queue[i].actions) >= 2
       /\ \E n \in DOMAIN queue[i].actions :
            IsFunction(ActionPool[queue[i].actions[n]].cost)
       /\ queue[i].priority > queue[i].cost
       /\ ProjectFutureCosts(queue[i].state, goal)
            # ProjectFutureCosts(StateAfter(initialState, queue[i].actions,
                                            Len(queue[i].actions) - 1), goal)


(***************************************************************************)
(* C38: what getStateHash tells apart.                                     *)
(***************************************************************************)
\* the states findPlan has in hand: those of the frontier nodes, each of
\* which it hashes when the node is dequeued and does not satisfy the goal
FrontierStates == {queue[i].state : i \in DOMAIN queue}

\* C38: getStateHash returns the same string for two states exactly when
\* they have the same keys and the same value for every key, whatever the
\* order in which the keys were inserted; states that differ in a value or in
\* the presence of a '_consumed' flag get different hashes, and so separate
\* visit counters.
C38_HashIdentifiesContent ==
  pc = "loop" =>
    \A s1 \in FrontierStates : \A s2 \in FrontierStates :
      GetStateHash(s1) = GetStateHash(s2) <=> SameContent(s1, s2)

=============================================================================
